---- MODULE Spec2Model ----
(***************************************************************************)
(* A model of the tyto BitTorrent tracker: the in-memory PeerStore and     *)
(* TorrentStore, the announce handler that drives them, the janitor's      *)
(* stale-peer pass and the global statistics counters.                     *)
(***************************************************************************)
EXTENDS Integers, FiniteSets, Sequences, TLC

\* ------------------------------------------------------------------ bounds
\* Largest value of the clock (Instant) the model lets time reach.
MaxTime == 1
\* Largest last_announced of a peer handed directly to the PeerStore API.
MaxStamp == 1
\* Largest value a statistics / torrent counter is allowed to be incremented to.
MaxCount == 2
\* Number of announce requests the handler accepts in one behaviour.
MaxAnnounces == 3
\* Largest numwant a request carries.
MaxNumwant == 2

\* --------------------------------------------------------------- constants
\* bt.peer_timeout of the configuration, in clock units.
peer_timeout == 1

\* ------------------------------------------------------------- data model
InfoHashes == {"h1", "h2"}

\* Peer identities (peer_id, ip, port) requests are drawn from: one IPv4
\* client and one IPv6 client.
IdentA == [peer_id |-> "A", ip |-> <<"V4", 1>>, port |-> 6881]
IdentB == [peer_id |-> "B", ip |-> <<"V6", 1>>, port |-> 6881]
PeerIdents == {IdentA, IdentB}

Times == 0..MaxTime
Stamps == 0..MaxStamp

\* Peer::V4(Peerv4 {..}) / Peer::V6(Peerv6 {..}): the variant is the tag of ip.
MkPeer(ident, t) ==
    [peer_id |-> ident.peer_id, ip |-> ident.ip, port |-> ident.port,
     last_announced |-> t]

\* The (info_hash, peer) arguments the PeerStore API is called with directly:
\* both clients on h1 with every timestamp, and one client on h2.
StoreCalls ==
    {<<"h1", MkPeer(i, t)>> : i \in PeerIdents, t \in Stamps}
    \cup {<<"h2", MkPeer(IdentA, 0)>>}

NoPeer == [peer_id |-> "", ip |-> <<"V4", 0>>, port |-> 0, last_announced |-> 0]

is_ipv4(peer) == peer.ip[1] = "V4"

\* impl PartialEq for Peerv4 / Peerv6 (and the Hash impls that agree with it):
\* last_announced takes no part.
PeerEq(p, q) == p.peer_id = q.peer_id /\ p.ip = q.ip /\ p.port = q.port

\* ---------------------------------------------------------------- HashSet
\* A HashSet<Peer> is a set of peer records, no two of them PeerEq.
HashSet_contains(set, peer) == \E q \in set : PeerEq(q, peer)

\* HashSet::insert: an element equal to the value is kept as it is, and the
\* value passed in is dropped.
HashSet_insert(set, peer) ==
    IF HashSet_contains(set, peer) THEN set ELSE set \cup {peer}

\* HashSet::replace: the element equal to the value is replaced by the value.
HashSet_replace(set, peer) == {q \in set : ~PeerEq(q, peer)} \cup {peer}

HashSet_remove(set, peer) == {q \in set : ~PeerEq(q, peer)}

\* HashSet::take: the stored element equal to the value, if any (as a set of
\* at most one element).
HashSet_take(set, peer) == {q \in set : PeerEq(q, peer)}

\* ------------------------------------------------------------------ Swarm
Swarm_new == [seeders |-> {}, leechers |-> {}]

Swarm_add_seeder(sw, peer) ==
    [sw EXCEPT !.seeders = HashSet_insert(sw.seeders, peer)]

Swarm_add_leecher(sw, peer) ==
    [sw EXCEPT !.leechers = HashSet_insert(sw.leechers, peer)]

Swarm_update_seeder_insert(sw, peer) ==
    IF HashSet_contains(sw.seeders, peer)
    THEN [sw EXCEPT !.seeders = HashSet_insert(sw.seeders, peer)]
    ELSE sw

Swarm_update_seeder(sw, peer) ==
    IF HashSet_contains(sw.seeders, peer)
    THEN [sw EXCEPT !.seeders = HashSet_replace(sw.seeders, peer)]
    ELSE sw

Swarm_update_leecher_always(sw, peer) ==
    [sw EXCEPT !.leechers = HashSet_replace(sw.leechers, peer)]

Swarm_update_leecher(sw, peer) ==
    IF HashSet_contains(sw.leechers, peer)
    THEN [sw EXCEPT !.leechers = HashSet_replace(sw.leechers, peer)]
    ELSE sw

Swarm_remove_seeder(sw, peer) ==
    [sw EXCEPT !.seeders = HashSet_remove(sw.seeders, peer)]

Swarm_remove_leecher_none(sw, peer) == sw

Swarm_remove_leecher(sw, peer) ==
    [sw EXCEPT !.leechers = HashSet_remove(sw.leechers, peer)]

Swarm_promote_leecher_keep(sw, peer) ==
    [sw EXCEPT !.seeders = HashSet_insert(sw.seeders, peer)]

Swarm_promote_leecher(sw, peer) ==
    LET taken == HashSet_take(sw.leechers, peer) IN
    IF taken # {}
    THEN [seeders  |-> HashSet_insert(sw.seeders, CHOOSE q \in taken : TRUE),
          leechers |-> HashSet_remove(sw.leechers, peer)]
    ELSE [sw EXCEPT !.seeders = HashSet_insert(sw.seeders, peer)]

\* -------------------------------------------------------------- PeerStore
\* PeerRecords = HashMap<String, Swarm>: a function whose domain is the set
\* of info-hashes that have a swarm.
HashMap_insert(map, k, v) ==
    [x \in DOMAIN map \cup {k} |-> IF x = k THEN v ELSE map[x]]

PeerStore_put_seeder(store, info_hash, peer) ==
    IF info_hash \in DOMAIN store
    THEN [store EXCEPT ![info_hash] = Swarm_add_seeder(@, peer)]
    ELSE HashMap_insert(store, info_hash, Swarm_add_seeder(Swarm_new, peer))

PeerStore_put_leecher(store, info_hash, peer) ==
    IF info_hash \in DOMAIN store
    THEN [store EXCEPT ![info_hash] = Swarm_add_leecher(@, peer)]
    ELSE HashMap_insert(store, info_hash, Swarm_add_leecher(Swarm_new, peer))

PeerStore_remove_seeder(store, info_hash, peer) ==
    IF info_hash \in DOMAIN store
    THEN [store EXCEPT ![info_hash] = Swarm_remove_seeder(@, peer)]
    ELSE store

\* remove_leecher as it would be if it dropped a swarm left with no peer.
PeerStore_remove_leecher_prune(store, info_hash, peer) ==
    IF info_hash \in DOMAIN store
    THEN LET sw == Swarm_remove_leecher(store[info_hash], peer) IN
         IF sw.seeders = {} /\ sw.leechers = {}
         THEN [h \in DOMAIN store \ {info_hash} |-> store[h]]
         ELSE [store EXCEPT ![info_hash] = sw]
    ELSE store

PeerStore_remove_leecher(store, info_hash, peer) ==
    IF info_hash \in DOMAIN store
    THEN [store EXCEPT ![info_hash] = Swarm_remove_leecher(@, peer)]
    ELSE store

PeerStore_promote_leecher(store, info_hash, peer) ==
    IF info_hash \in DOMAIN store
    THEN [store EXCEPT ![info_hash] = Swarm_promote_leecher(@, peer)]
    ELSE store

\* update_peer as it would be if it registered the peer it is given.
PeerStore_update_peer_register(store, info_hash, peer) ==
    IF info_hash \in DOMAIN store
    THEN [store EXCEPT ![info_hash] =
              [seeders |-> @.seeders,
               leechers |-> HashSet_replace(@.leechers, peer)]]
    ELSE store

PeerStore_update_peer(store, info_hash, peer) ==
    IF info_hash \in DOMAIN store
    THEN [store EXCEPT ![info_hash] =
              Swarm_update_leecher(Swarm_update_seeder(@, peer), peer)]
    ELSE store

\* PeerStore::get_peers up to the call of give_random: the vector holding the
\* seeders and then the leechers. An entry is tagged with the set it was
\* copied from, so a peer stored in both sets is in the vector twice.
PeerStore_peer_list(store, info_hash) ==
    IF info_hash \in DOMAIN store
    THEN {[from |-> "seeders", peer |-> p] : p \in store[info_hash].seeders}
         \cup {[from |-> "leechers", peer |-> p] : p \in store[info_hash].leechers}
    ELSE {}

\* PeerList::give_random: every vector it can return.
PeerList_give_random(list, numwant) ==
    IF Cardinality(list) <= numwant
    THEN {list}
    ELSE {s \in SUBSET list : Cardinality(s) = numwant}

PeerStore_get_peers(store, info_hash, numwant) ==
    PeerList_give_random(PeerStore_peer_list(store, info_hash), numwant)

\* The handler's split of the returned vector into the IPv4 and IPv6 lists.
SplitFamilies(list) ==
    [peers  |-> {e \in list : is_ipv4(e.peer)},
     peers6 |-> {e \in list : ~is_ipv4(e.peer)}]

\* shuffle then truncate(n) of a vector: any n of its entries, or all of them.
Truncated(list, n) ==
    IF Cardinality(list) <= n
    THEN {list}
    ELSE {s \in SUBSET list : Cardinality(s) = n}

\* SwarmStore::get_peers: every pair (peers, peers6) it can return.
SwarmStore_get_peers(store, info_hash, numwant) ==
    IF info_hash \in DOMAIN store
    THEN LET sw  == store[info_hash]
             all == SplitFamilies(PeerStore_peer_list(store, info_hash))
         IN  IF Cardinality(sw.seeders) + Cardinality(sw.leechers) > numwant
             THEN {[peers |-> a, peers6 |-> b] :
                      a \in Truncated(all.peers, numwant),
                      b \in Truncated(all.peers6, numwant)}
             ELSE {all}
    ELSE {[peers |-> {}, peers6 |-> {}]}

\* ----------------------------------------------------------- TorrentStore
saturating_sub_plain(a, b) == a - b

\* u32::saturating_sub
saturating_sub(a, b) == IF a >= b THEN a - b ELSE 0

\* u32 += 1. The counters of the model stay at or below MaxCount, far from
\* the 2^32 at which the addition overflows.
u32_incr(a) == a + 1

Torrent_new(complete, downloaded, incomplete, balance) ==
    [complete |-> complete, downloaded |-> downloaded,
     incomplete |-> incomplete, balance |-> balance]

TorrentStore_new_seed(store, info_hash) ==
    IF info_hash \in DOMAIN store
    THEN [store EXCEPT ![info_hash] =
              [@ EXCEPT !.complete = u32_incr(@),
                        !.incomplete = saturating_sub(@, 1)]]
    ELSE store

\* new_leech as it would be if it made a row for an info-hash that has none.
TorrentStore_new_leech_or_insert(store, info_hash) ==
    IF info_hash \in DOMAIN store
    THEN [store EXCEPT ![info_hash] = [@ EXCEPT !.incomplete = u32_incr(@)]]
    ELSE HashMap_insert(store, info_hash, Torrent_new(0, 0, 1, 0))

TorrentStore_new_leech(store, info_hash) ==
    IF info_hash \in DOMAIN store
    THEN [store EXCEPT ![info_hash] = [@ EXCEPT !.incomplete = u32_incr(@)]]
    ELSE store

TorrentStore_get_announce_stats(store, info_hash) ==
    IF info_hash \in DOMAIN store
    THEN <<store[info_hash].complete, store[info_hash].incomplete>>
    ELSE <<0, 0>>

\* ------------------------------------------------------- GlobalStatistics
GlobalStatistics_new ==
    [total_seeders |-> 0, total_leechers |-> 0, announce_requests |-> 0,
     succ_announces |-> 0, scrapes |-> 0]

\* succ_announce as it would be if it counted the success only.
succ_announce_only(s) == [s EXCEPT !.succ_announces = u32_incr(@)]

succ_announce(s) ==
    [s EXCEPT !.announce_requests = u32_incr(@), !.succ_announces = u32_incr(@)]

fail_announce(s) == [s EXCEPT !.announce_requests = u32_incr(@)]

\* The u32 subtraction of num_fails, as the number it denotes: a negative
\* value is an underflow.
num_fails(s) == s.announce_requests - s.succ_announces

incr_scrapes(s) == [s EXCEPT !.scrapes = u32_incr(@)]

add_seed(s) == [s EXCEPT !.total_seeders = u32_incr(@)]

add_leech(s) == [s EXCEPT !.total_leechers = u32_incr(@)]

sub_seed(s) == [s EXCEPT !.total_leechers = saturating_sub(s.total_seeders, 1)]

sub_leech(s) == [s EXCEPT !.total_leechers = saturating_sub(@, 1)]

promote_leech(s) ==
    [s EXCEPT !.total_leechers = saturating_sub(@, 1),
              !.total_seeders = u32_incr(@)]

cleared_peers(s, seeders_cleared, leechers_cleared) ==
    [s EXCEPT !.total_seeders = saturating_sub(@, seeders_cleared),
              !.total_leechers = saturating_sub(@, leechers_cleared)]

\* ------------------------------------------------------------------ state
VARIABLES
    records,   \* PeerStore.records: info_hash -> Swarm
    torrents,  \* TorrentStore.torrents: info_hash -> Torrent
    stats,     \* State.stats: GlobalStatistics
    now,       \* the monotonic clock read by Instant::now()
    last,      \* the most recent call on a store: its name and arguments
    sample,    \* the peers returned by the most recent get_peers
    fails,     \* the value returned by the most recent num_fails
    req,       \* the announce request being handled and the handler's position
    resp,      \* the most recent announce response
    nann,      \* the number of announce requests received so far
    reap,      \* the janitor's clear_peers pass and its position
    approval,  \* the configuration of the approval middleware
    scrape,    \* the most recent scrape request and what it was answered
    flush,     \* the janitor's flush tasks and the rows of the database
    wire,      \* the peer lists of a response and their compact forms
    handlers,  \* the announce handlers that run concurrently
    lock,      \* the RwLock around PeerStore.records
    tlock      \* the RwLock around TorrentStore.torrents

storeVars == <<records, torrents, stats, now, last, sample, fails>>
procVars == <<req, resp, nann, reap>>
vars == <<records, torrents, stats, now, last, sample, fails, req, resp, nann,
          reap, approval, scrape, flush, wire, handlers, lock, tlock>>

NoSample == [peers |-> {}, peers6 |-> {}]

SameIdent(p, q) ==
    <<p.peer_id, p.ip, p.port>> = <<q.peer_id, q.ip, q.port>>

\* The record of a call. `after` names the call made just before it when that
\* one had the same info_hash and the same peer identity, and is "other"
\* when it had not.
Call(op, info_hash, peer, numwant) ==
    [op |-> op, info_hash |-> info_hash, peer |-> peer, numwant |-> numwant,
     after |-> IF last.info_hash = info_hash /\ SameIdent(last.peer, peer)
               THEN last.op ELSE "other"]

Events == {"started", "stopped", "completed", "none"}

IdleReq ==
    [pc |-> "idle", event |-> "none", info_hash |-> "", peer |-> NoPeer,
     numwant |-> 0, peers |-> NoSample]

\* AnnounceResponse::new: a success response.
AnnounceResponse_new(complete, incomplete, peers, peers6) ==
    [kind |-> "success", failure_reason |-> "", complete |-> complete,
     incomplete |-> incomplete, peers |-> peers, peers6 |-> peers6]

\* AnnounceResponse::failure: failure_reason and the defaults of the rest.
AnnounceResponse_failure(reason) ==
    [kind |-> "failure", failure_reason |-> reason, complete |-> 0,
     incomplete |-> 0, peers |-> {}, peers6 |-> {}]

\* No response has been produced.
NoResp ==
    [kind |-> "none", failure_reason |-> "", complete |-> 0, incomplete |-> 0,
     peers |-> {}, peers6 |-> {}]

\* ClientApproval is not wrapped around the service and TorrentApproval
\* prohibits nothing.
NoApproval ==
    [client |-> [enabled |-> FALSE, blacklist_style |-> TRUE,
                 versioned |-> FALSE, list |-> {}],
     prohibited_list |-> {}]

\* ----------------------------------------------------------------- scrape
\* ScrapeResponse::new: no failure_reason and no files. An Option<String> is
\* the set of at most one string.
ScrapeResponse_new ==
    [failure_reason |-> {}, files |-> [h \in {} |-> Torrent_new(0, 0, 0, 0)]]

\* ScrapeResponse::failure: failure_reason and the defaults of the rest.
ScrapeResponse_failure(reason) ==
    [failure_reason |-> {reason}, files |-> [h \in {} |-> Torrent_new(0, 0, 0, 0)]]

\* ScrapeFile { info_hash, complete, downloaded, incomplete, name: None }
ScrapeFile(info_hash, t) ==
    [info_hash |-> info_hash, complete |-> t.complete,
     downloaded |-> t.downloaded, incomplete |-> t.incomplete]

\* ScrapeResponse::add_file: HashMap::insert under the info_hash.
ScrapeResponse_add_file(response, info_hash, scrape_file) ==
    [response EXCEPT !.files = HashMap_insert(@, info_hash, scrape_file)]

\* ScrapeRequest::new on the (key, value) pairs of the query string, in the
\* order form_urlencoded::parse yields them: the first key that is not
\* info_hash ends the loop with the failure.
ScrapeRequest_new(pairs) ==
    IF \E i \in 1..Len(pairs) : pairs[i][1] # "info_hash"
    THEN [kind |-> "err", info_hashes |-> <<>>,
          failure |-> ScrapeResponse_failure("Malformed scrape request")]
    ELSE [kind |-> "ok", info_hashes |-> [i \in 1..Len(pairs) |-> pairs[i][2]],
          failure |-> ScrapeResponse_new]

\* get_scrapes as it would be if it answered a hash that has no row with a
\* file of zeros.
RECURSIVE TorrentStore_get_scrapes_zeros(_, _)
TorrentStore_get_scrapes_zeros(store, info_hashes) ==
    IF info_hashes = <<>> THEN <<>>
    ELSE LET info_hash == Head(info_hashes)
             rest == TorrentStore_get_scrapes_zeros(store, Tail(info_hashes))
         IN  IF info_hash \in DOMAIN store
             THEN <<ScrapeFile(info_hash, store[info_hash])>> \o rest
             ELSE <<ScrapeFile(info_hash, Torrent_new(0, 0, 0, 0))>> \o rest

\* TorrentStore::get_scrapes: under the read lock, one ScrapeFile pushed for
\* each element of info_hashes that torrents.get finds.
RECURSIVE TorrentStore_get_scrapes(_, _)
TorrentStore_get_scrapes(store, info_hashes) ==
    IF info_hashes = <<>> THEN <<>>
    ELSE LET info_hash == Head(info_hashes)
             rest == TorrentStore_get_scrapes(store, Tail(info_hashes))
         IN  IF info_hash \in DOMAIN store
             THEN <<ScrapeFile(info_hash, store[info_hash])>> \o rest
             ELSE rest

\* The loop of parse_scrape over the files get_scrapes returned.
RECURSIVE add_files(_, _)
add_files(response, scrape_files) ==
    IF scrape_files = <<>> THEN response
    ELSE add_files(ScrapeResponse_add_file(response, Head(scrape_files).info_hash,
                                           Head(scrape_files)),
                   Tail(scrape_files))

\* impl ToBencode for ScrapeResponse and encode_scrape_response: the
\* dictionary emitted, as the set of its keys and their values. The one pair
\* emitted is files.
encode_scrape_response(response) ==
    [keys |-> {"files"}, failure_reason |-> "", files |-> response.files]

\* The dictionary d14:failure_reason<len>:<reason>e.
FailureBody(reason) ==
    [keys |-> {"failure_reason"}, failure_reason |-> reason,
     files |-> [h \in {} |-> Torrent_new(0, 0, 0, 0)]]

\* parse_scrape: the record of the request, of the call of get_scrapes (made
\* in the Ok arm only) and of the reply.
parse_scrape(store, pairs) ==
    LET scrape_request == ScrapeRequest_new(pairs) IN
    IF scrape_request.kind = "ok"
    THEN LET scrape_files ==
                 TorrentStore_get_scrapes(store, scrape_request.info_hashes)
             scrape_response == add_files(ScrapeResponse_new, scrape_files)
         IN  [op |-> "scrape", query |-> pairs, request |-> scrape_request,
              get_scrapes |-> TRUE, scrape_files |-> scrape_files,
              response |-> scrape_response,
              body |-> encode_scrape_response(scrape_response)]
    ELSE [op |-> "scrape", query |-> pairs, request |-> scrape_request,
          get_scrapes |-> FALSE, scrape_files |-> <<>>,
          response |-> scrape_request.failure,
          body |-> encode_scrape_response(scrape_request.failure)]

\* No scrape request has been received.
NoScrape ==
    [op |-> "new", query |-> <<>>, request |-> ScrapeRequest_new(<<>>),
     get_scrapes |-> FALSE, scrape_files |-> <<>>,
     response |-> ScrapeResponse_new,
     body |-> encode_scrape_response(ScrapeResponse_new)]

IdleReap ==
    [pc |-> "idle", info_hashes |-> {}, seeds_cleared |-> 0, leeches_cleared |-> 0]

\* TorrentRecords as loaded at startup: h1 has a row, h2 has none.
InitTorrents == [h \in {"h1"} |-> Torrent_new(0, 0, 0, 0)]

\* The janitor after Janitor::started: run_interval has scheduled flush, no
\* flush task has been spawned, and the table holds the rows get_torrents
\* loaded the TorrentStore from.
IdleFlush ==
    [scheduled |-> TRUE, waiting |-> 0, running |-> <<>>, spawned |-> 0,
     result |-> "none", db |-> InitTorrents]

\* No response has been encoded.
NoWire ==
    [op |-> "new", peers |-> <<>>, peers6 |-> <<>>, compact |-> <<>>,
     compact6 |-> <<>>]

\* The workers that run parse_announce at the same time.
HandlerIds == {1, 2}

\* A worker between requests. taken is the Option returned by
\* leechers.take; seeds and leeches are the vectors get_peers collects.
\* rejoined records, for a stopped announce past its last removal, that a
\* started or completed announce of the same info_hash and peer has acquired
\* the write lock since.
IdleHandler ==
    [pc |-> "idle", event |-> "none", info_hash |-> "", peer |-> NoPeer,
     taken |-> {}, seeds |-> {}, leeches |-> {}, rejoined |-> FALSE]

\* RwLock::new: no writer (0) and no reader.
RwLock_new == [writer |-> 0, readers |-> {}]

Init ==
    /\ records = [h \in {} |-> Swarm_new]
    /\ torrents = InitTorrents
    /\ stats = GlobalStatistics_new
    /\ now = 0
    /\ last = [op |-> "new", info_hash |-> "", peer |-> NoPeer, numwant |-> 0,
               after |-> "other"]
    /\ sample = NoSample
    /\ fails = 0
    /\ req = IdleReq
    /\ resp = NoResp
    /\ nann = 0
    /\ reap = IdleReap
    /\ approval = NoApproval
    /\ scrape = NoScrape
    /\ flush = IdleFlush
    /\ wire = NoWire
    /\ handlers = [i \in HandlerIds |-> IdleHandler]
    /\ lock = RwLock_new
    /\ tlock = RwLock_new

\* ------------------------------------------------- PeerStore API, called directly
PutSeeder(info_hash, peer) ==
    /\ records' = PeerStore_put_seeder(records, info_hash, peer)
    /\ last' = Call("put_seeder", info_hash, peer, 0)
    /\ sample' = NoSample
    /\ UNCHANGED <<approval, tlock, handlers, lock, scrape, flush, wire, torrents, stats, now, fails, procVars>>

PutLeecher(info_hash, peer) ==
    /\ records' = PeerStore_put_leecher(records, info_hash, peer)
    /\ last' = Call("put_leecher", info_hash, peer, 0)
    /\ sample' = NoSample
    /\ UNCHANGED <<approval, tlock, handlers, lock, scrape, flush, wire, torrents, stats, now, fails, procVars>>

RemoveSeeder(info_hash, peer) ==
    /\ records' = PeerStore_remove_seeder(records, info_hash, peer)
    /\ last' = Call("remove_seeder", info_hash, peer, 0)
    /\ sample' = NoSample
    /\ UNCHANGED <<approval, tlock, handlers, lock, scrape, flush, wire, torrents, stats, now, fails, procVars>>

RemoveLeecher(info_hash, peer) ==
    /\ records' = PeerStore_remove_leecher(records, info_hash, peer)
    /\ last' = Call("remove_leecher", info_hash, peer, 0)
    /\ sample' = NoSample
    /\ UNCHANGED <<approval, tlock, handlers, lock, scrape, flush, wire, torrents, stats, now, fails, procVars>>

PromoteLeecher(info_hash, peer) ==
    /\ records' = PeerStore_promote_leecher(records, info_hash, peer)
    /\ last' = Call("promote_leecher", info_hash, peer, 0)
    /\ sample' = NoSample
    /\ UNCHANGED <<approval, tlock, handlers, lock, scrape, flush, wire, torrents, stats, now, fails, procVars>>

UpdatePeer(info_hash, peer) ==
    /\ records' = PeerStore_update_peer(records, info_hash, peer)
    /\ last' = Call("update_peer", info_hash, peer, 0)
    /\ sample' = NoSample
    /\ UNCHANGED <<approval, tlock, handlers, lock, scrape, flush, wire, torrents, stats, now, fails, procVars>>

\* PeerStore::get_peers, its result split into the two lists of the response.
GetPeers(info_hash, numwant) ==
    /\ \E list \in PeerStore_get_peers(records, info_hash, numwant) :
           sample' = SplitFamilies(list)
    /\ last' = Call("get_peers", info_hash, NoPeer, numwant)
    /\ UNCHANGED <<approval, tlock, handlers, lock, scrape, flush, wire, records, torrents, stats, now, fails, procVars>>

\* SwarmStore::get_peers.
SwarmGetPeers(info_hash, numwant) ==
    /\ sample' \in SwarmStore_get_peers(records, info_hash, numwant)
    /\ last' = Call("swarm_get_peers", info_hash, NoPeer, numwant)
    /\ UNCHANGED <<approval, tlock, handlers, lock, scrape, flush, wire, records, torrents, stats, now, fails, procVars>>

\* Any sequence of calls of the mutating PeerStore operations.
NextStore ==
    \E c \in StoreCalls :
        \/ PutSeeder(c[1], c[2])
        \/ PutLeecher(c[1], c[2])
        \/ RemoveSeeder(c[1], c[2])
        \/ RemoveLeecher(c[1], c[2])
        \/ PromoteLeecher(c[1], c[2])
        \/ UpdatePeer(c[1], c[2])

SpecStore == Init /\ [][NextStore]_vars

\* Swarms built by the calls the announce handler makes, and sampled.
NextSample ==
    \/ \E c \in StoreCalls :
          \/ PutLeecher(c[1], c[2])
          \/ PromoteLeecher(c[1], c[2])
          \/ RemoveSeeder(c[1], c[2])
          \/ RemoveLeecher(c[1], c[2])
    \/ \E h \in InfoHashes, n \in 0..MaxNumwant :
          \/ GetPeers(h, n)
          \/ SwarmGetPeers(h, n)

SpecSample == Init /\ [][NextSample]_vars

\* ------------------------------------------------------------ parse_announce
\* AnnounceRequest::new on a well-formed query: the peer is stamped with
\* Instant::now().
Receive(event, info_hash, ident, numwant) ==
    /\ req.pc = "idle"
    /\ nann < MaxAnnounces
    /\ nann' = nann + 1
    /\ req' = [pc |-> "peer_store", event |-> event, info_hash |-> info_hash,
               peer |-> MkPeer(ident, now), numwant |-> numwant,
               peers |-> NoSample]
    /\ resp' = NoResp
    /\ UNCHANGED <<approval, tlock, handlers, lock, scrape, flush, wire, storeVars, reap>>

\* The first PeerStore call of the event's arm.
AnnouncePeerStore ==
    /\ req.pc = "peer_store"
    /\ records' =
         CASE req.event = "started" ->
                  PeerStore_put_leecher(records, req.info_hash, req.peer)
           [] req.event = "stopped" ->
                  PeerStore_remove_seeder(records, req.info_hash, req.peer)
           [] req.event = "completed" ->
                  PeerStore_promote_leecher(records, req.info_hash, req.peer)
           [] req.event = "none" ->
                  PeerStore_update_peer(records, req.info_hash, req.peer)
    /\ req' = [req EXCEPT !.pc =
                  CASE req.event = "stopped" -> "remove_leecher"
                    [] req.event = "none" -> "get_peers"
                    [] OTHER -> "torrent_store"]
    /\ UNCHANGED <<approval, tlock, handlers, lock, scrape, flush, wire, torrents, stats, now, last, sample, fails, resp, nann, reap>>

\* Event::Stopped: the second removal.
AnnounceRemoveLeecher ==
    /\ req.pc = "remove_leecher"
    /\ records' = PeerStore_remove_leecher(records, req.info_hash, req.peer)
    /\ req' = [req EXCEPT !.pc = "get_peers"]
    /\ UNCHANGED <<approval, tlock, handlers, lock, scrape, flush, wire, torrents, stats, now, last, sample, fails, resp, nann, reap>>

\* Event::Started: new_leech; Event::Completed: new_seed.
AnnounceTorrentStore ==
    /\ req.pc = "torrent_store"
    /\ torrents' = IF req.event = "started"
                   THEN TorrentStore_new_leech(torrents, req.info_hash)
                   ELSE TorrentStore_new_seed(torrents, req.info_hash)
    /\ req' = [req EXCEPT !.pc = "get_peers"]
    /\ UNCHANGED <<approval, tlock, handlers, lock, scrape, flush, wire, records, stats, now, last, sample, fails, resp, nann, reap>>

AnnounceGetPeers ==
    /\ req.pc = "get_peers"
    /\ \E list \in PeerStore_get_peers(records, req.info_hash, req.numwant) :
           req' = [req EXCEPT !.pc = "get_announce_stats",
                              !.peers = SplitFamilies(list)]
    /\ UNCHANGED <<approval, tlock, handlers, lock, scrape, flush, wire, storeVars, resp, nann, reap>>

\* get_announce_stats, AnnounceResponse::new and the reply.
AnnounceRespond ==
    /\ req.pc = "get_announce_stats"
    /\ LET st == TorrentStore_get_announce_stats(torrents, req.info_hash) IN
       resp' = AnnounceResponse_new(st[1], st[2], req.peers.peers,
                                    req.peers.peers6)
    /\ req' = IdleReq
    /\ UNCHANGED <<approval, tlock, handlers, lock, scrape, flush, wire, storeVars, nann, reap>>

\* ------------------------------------------------------- Janitor::clear_peers
\* The closure of retain: the peer is kept when it announced less than
\* peer_timeout ago.
Fresh_inclusive(peer, t) == t - peer.last_announced <= peer_timeout

Fresh(peer, t) == t - peer.last_announced < peer_timeout

\* The snapshot of the info-hashes, taken under the read lock.
ClearPeersStart ==
    /\ reap.pc = "idle"
    /\ reap' = [pc |-> "scan", info_hashes |-> DOMAIN records,
                seeds_cleared |-> 0, leeches_cleared |-> 0]
    /\ UNCHANGED <<approval, tlock, handlers, lock, scrape, flush, wire, storeVars, req, resp, nann>>

\* One turn of the loop: under the write lock, retain on both sets of the
\* swarm of info_hash.
ClearPeersSwarm(info_hash) ==
    /\ reap.pc = "scan"
    /\ info_hash \in reap.info_hashes
    /\ IF info_hash \in DOMAIN records
       THEN LET swarm   == records[info_hash]
                seeders  == {p \in swarm.seeders : Fresh(p, now)}
                leechers == {p \in swarm.leechers : Fresh(p, now)}
            IN /\ records' = [records EXCEPT ![info_hash] =
                                 [seeders |-> seeders, leechers |-> leechers]]
               /\ reap' = [reap EXCEPT
                     !.info_hashes = @ \ {info_hash},
                     !.seeds_cleared =
                         @ + Cardinality(swarm.seeders) - Cardinality(seeders),
                     !.leeches_cleared =
                         @ + Cardinality(swarm.leechers) - Cardinality(leechers)]
       ELSE /\ records' = records
            /\ reap' = [reap EXCEPT !.info_hashes = @ \ {info_hash}]
    /\ UNCHANGED <<approval, tlock, handlers, lock, scrape, flush, wire, torrents, stats, now, last, sample, fails, req, resp, nann>>

\* The end of a pass as it would be if clear_peers were scheduled once and
\* not on an interval.
ClearPeersDone_once ==
    /\ reap.pc = "scan"
    /\ reap.info_hashes = {}
    /\ reap' = [reap EXCEPT !.pc = "done"]
    /\ UNCHANGED <<approval, tlock, handlers, lock, scrape, flush, wire, storeVars, req,
                   resp, nann>>

\* The end of the pass: the counts are logged; the statistics are not updated.
ClearPeersDone ==
    /\ reap.pc = "scan"
    /\ reap.info_hashes = {}
    /\ reap' = IdleReap
    /\ UNCHANGED <<approval, tlock, handlers, lock, scrape, flush, wire, storeVars, req, resp, nann>>

\* Time passes.
Tick ==
    /\ now < MaxTime
    /\ now' = now + 1
    /\ UNCHANGED <<approval, tlock, handlers, lock, scrape, flush, wire, records, torrents, stats, last, sample, fails, procVars>>

Next ==
    \/ \E e \in Events, h \in InfoHashes, i \in PeerIdents, n \in 0..MaxNumwant :
          Receive(e, h, i, n)
    \/ AnnouncePeerStore
    \/ AnnounceRemoveLeecher
    \/ AnnounceTorrentStore
    \/ AnnounceGetPeers
    \/ AnnounceRespond
    \/ ClearPeersStart
    \/ \E h \in InfoHashes : ClearPeersSwarm(h)
    \/ ClearPeersDone
    \/ Tick

Spec == Init /\ [][Next]_vars

\* ------------------------------- TorrentStore and GlobalStatistics, called directly
NewSeed(info_hash) ==
    /\ \A h \in DOMAIN torrents : torrents[h].complete < MaxCount
    /\ torrents' = TorrentStore_new_seed(torrents, info_hash)
    /\ last' = Call("new_seed", info_hash, NoPeer, 0)
    /\ UNCHANGED <<approval, tlock, handlers, lock, scrape, flush, wire, records, stats, now, sample, fails, procVars>>

NewLeech(info_hash) ==
    /\ \A h \in DOMAIN torrents : torrents[h].incomplete < MaxCount
    /\ torrents' = TorrentStore_new_leech(torrents, info_hash)
    /\ last' = Call("new_leech", info_hash, NoPeer, 0)
    /\ UNCHANGED <<approval, tlock, handlers, lock, scrape, flush, wire, records, stats, now, sample, fails, procVars>>

StatsCall(op, after) ==
    /\ stats' = after
    /\ last' = Call(op, "", NoPeer, 0)
    /\ UNCHANGED <<approval, tlock, handlers, lock, scrape, flush, wire, records, torrents, now, sample, fails, procVars>>

SuccAnnounce ==
    /\ stats.announce_requests < MaxCount
    /\ StatsCall("succ_announce", succ_announce(stats))

FailAnnounce ==
    /\ stats.announce_requests < MaxCount
    /\ StatsCall("fail_announce", fail_announce(stats))

NumFails ==
    /\ fails' = num_fails(stats)
    /\ last' = Call("num_fails", "", NoPeer, 0)
    /\ UNCHANGED <<approval, tlock, handlers, lock, scrape, flush, wire, records, torrents, stats, now, sample, procVars>>

AddSeed ==
    /\ stats.total_seeders < MaxCount
    /\ StatsCall("add_seed", add_seed(stats))

AddLeech ==
    /\ stats.total_leechers < MaxCount
    /\ StatsCall("add_leech", add_leech(stats))

SubSeed == StatsCall("sub_seed", sub_seed(stats))

SubLeech == StatsCall("sub_leech", sub_leech(stats))

PromoteLeech ==
    /\ stats.total_seeders < MaxCount
    /\ StatsCall("promote_leech", promote_leech(stats))

ClearedPeers(seeders_cleared, leechers_cleared) ==
    StatsCall("cleared_peers",
              cleared_peers(stats, seeders_cleared, leechers_cleared))

\* Any sequence of calls on the TorrentStore counters and on GlobalStatistics.
NextStats ==
    \/ \E h \in InfoHashes : NewSeed(h) \/ NewLeech(h)
    \/ SuccAnnounce
    \/ FailAnnounce
    \/ NumFails
    \/ AddSeed
    \/ AddLeech
    \/ SubSeed
    \/ SubLeech
    \/ PromoteLeech
    \/ \E s, l \in 0..MaxCount : ClearedPeers(s, l)

SpecStats == Init /\ [][NextStats]_vars

\* ------------------------------------------------------ reading the state
Seeders(store, h) == IF h \in DOMAIN store THEN store[h].seeders ELSE {}
Leechers(store, h) == IF h \in DOMAIN store THEN store[h].leechers ELSE {}

\* Membership by identity.
InSet(set, p) == \E q \in set : SameIdent(q, p)
\* The entries of a set that belong to other identities than p.
Others(set, p) == {q \in set : ~SameIdent(q, p)}
\* The stored entries of identity p.
Entries(set, p) == {q \in set : SameIdent(q, p)}

Min(a, b) == IF a <= b THEN a ELSE b

\* ------------------------------------------------------------------ claims
IsPut(op) == op \in {"put_seeder", "put_leecher"}
PutSet(store, call) ==
    IF call.op = "put_seeder" THEN Seeders(store, call.info_hash)
    ELSE Leechers(store, call.info_hash)

\* C2: after two insertions of the same (peer_id, ip, port) with different
\* last_announced into the same swarm set (put_seeder twice or put_leecher
\* twice), the set holds exactly one entry of that identity and the entry
\* carries the timestamp of the second insertion.
C2_SecondInsertWins ==
    [][ ( /\ IsPut(last'.op)
          /\ last'.after = last'.op
          /\ last.op = last'.op
          /\ last.peer.last_announced # last'.peer.last_announced )
        => Entries(PutSet(records', last'), last'.peer) = {last'.peer} ]_vars

\* C3: after put_leecher(h,P) followed by promote_leecher(h,P), P is in
\* seeders(h) and P is not in leechers(h).
C3_PutThenPromote ==
    (last.op = "promote_leecher" /\ last.after = "put_leecher")
    => /\ InSet(Seeders(records, last.info_hash), last.peer)
       /\ ~InSet(Leechers(records, last.info_hash), last.peer)

C3_Witness ==
    /\ last.op = "promote_leecher"
    /\ last.after = "put_leecher"
    /\ InSet(Seeders(records, last.info_hash), last.peer)
    /\ Cardinality(Leechers(records, last.info_hash)) = 1

\* C4: promote_leecher(h,P) always leaves P in seeders(h), also when P was
\* not a leecher and when h had no swarm, and applying it a second time
\* changes nothing.
C4_PromoteAlwaysSeeds ==
    (last.op = "promote_leecher")
    => /\ InSet(Seeders(records, last.info_hash), last.peer)
       /\ PeerStore_promote_leecher(records, last.info_hash, last.peer) = records

\* C5: after remove_seeder(h,P) followed by remove_leecher(h,P), P is in
\* neither seeders(h) nor leechers(h), whatever P was before and whether or
\* not h has a swarm; neither call changes the membership of another peer,
\* another swarm, or the set of swarms.
RemoveFrame ==
    (last'.op \in {"remove_seeder", "remove_leecher"})
    => /\ DOMAIN records' = DOMAIN records
       /\ \A h \in InfoHashes :
            IF h = last'.info_hash
            THEN /\ Others(Seeders(records', h), last'.peer)
                      = Others(Seeders(records, h), last'.peer)
                 /\ Others(Leechers(records', h), last'.peer)
                      = Others(Leechers(records, h), last'.peer)
            ELSE /\ Seeders(records', h) = Seeders(records, h)
                 /\ Leechers(records', h) = Leechers(records, h)

StoppedGone ==
    (last'.op = "remove_leecher" /\ last'.after = "remove_seeder")
    => /\ ~InSet(Seeders(records', last'.info_hash), last'.peer)
       /\ ~InSet(Leechers(records', last'.info_hash), last'.peer)

C5_RemoveBoth == [][RemoveFrame /\ StoppedGone]_vars

C5_Witness ==
    /\ last.op = "remove_leecher"
    /\ last.after = "remove_seeder"
    /\ last.info_hash \in DOMAIN records
    /\ ~InSet(Seeders(records, last.info_hash), last.peer)
    /\ ~InSet(Leechers(records, last.info_hash), last.peer)
    /\ Seeders(records, last.info_hash) # {}
    /\ Leechers(records, last.info_hash) # {}

\* C6: the peers returned for (h, numwant) number exactly
\* min(numwant, |seeders(h)| + |leechers(h)|) over both lists, no peer is
\* returned twice, and every returned peer is in the swarm of h.
Returned == sample.peers \cup sample.peers6

C6_SampleSize ==
    (last.op \in {"get_peers", "swarm_get_peers"})
    => /\ Cardinality(sample.peers) + Cardinality(sample.peers6)
            = Min(last.numwant,
                  Cardinality(Seeders(records, last.info_hash))
                  + Cardinality(Leechers(records, last.info_hash)))
       /\ \A e1, e2 \in Returned : SameIdent(e1.peer, e2.peer) => e1 = e2
       /\ \A e \in Returned :
             e.peer \in Seeders(records, last.info_hash)
                         \cup Leechers(records, last.info_hash)

\* C7: update_peer(h,P) for a P in neither seeders(h) nor leechers(h), also
\* when h has no swarm, leaves every swarm and the set of swarms as they were.
C7_UpdateAbsentNoop ==
    [][ ( /\ last'.op = "update_peer"
          /\ ~InSet(Seeders(records, last'.info_hash), last'.peer)
          /\ ~InSet(Leechers(records, last'.info_hash), last'.peer) )
        => records' = records ]_vars

C7_Witness ==
    /\ last.op = "update_peer"
    /\ last.info_hash \in DOMAIN records
    /\ ~InSet(Seeders(records, last.info_hash), last.peer)
    /\ ~InSet(Leechers(records, last.info_hash), last.peer)
    /\ Seeders(records, last.info_hash) # {}
    /\ Leechers(records, last.info_hash) # {}

\* C8: update_peer(h,P) for a P stored in seeders(h) or leechers(h) makes P
\* itself, with its last_announced, the stored entry in each set that held
\* it; P enters no set it was not in, and no set changes size.
UpdatedIn(before, after, p) ==
    IF InSet(before, p)
    THEN Entries(after, p) = {p} /\ Others(after, p) = Others(before, p)
    ELSE after = before

C8_UpdateRefreshes ==
    [][ ( /\ last'.op = "update_peer"
          /\ \/ InSet(Seeders(records, last'.info_hash), last'.peer)
             \/ InSet(Leechers(records, last'.info_hash), last'.peer) )
        => /\ UpdatedIn(Seeders(records, last'.info_hash),
                        Seeders(records', last'.info_hash), last'.peer)
           /\ UpdatedIn(Leechers(records, last'.info_hash),
                        Leechers(records', last'.info_hash), last'.peer)
           /\ Cardinality(Seeders(records', last'.info_hash))
                = Cardinality(Seeders(records, last'.info_hash))
           /\ Cardinality(Leechers(records', last'.info_hash))
                = Cardinality(Leechers(records, last'.info_hash)) ]_vars

C8_Witness ==
    /\ last.op = "update_peer"
    /\ last.after = "put_leecher"
    /\ last.peer.last_announced = 1
    /\ last.peer \in Leechers(records, last.info_hash)
    /\ ~InSet(Seeders(records, last.info_hash), last.peer)
    /\ Cardinality(Leechers(records, last.info_hash)) = 2

\* C1: no peer identity is in both seeders(h) and leechers(h), for every
\* info-hash h, in every state the announces and the janitor's passes reach.
C1_AtMostOneSet ==
    \A h \in DOMAIN records :
        \A p \in records[h].seeders : ~InSet(records[h].leechers, p)

\* C9: when clear_peers scans the swarm of h at time now with timeout
\* peer_timeout, every entry left in seeders(h) or leechers(h) has
\* now - last_announced < peer_timeout, and every entry whose age was at
\* least peer_timeout is gone from both sets.
Scanned(h) ==
    /\ reap.pc = "scan"
    /\ reap'.pc = "scan"
    /\ h \in reap.info_hashes
    /\ h \notin reap'.info_hashes

C9_StaleReaped ==
    [][ \A h \in InfoHashes :
          Scanned(h) =>
            /\ \A p \in Seeders(records', h) \cup Leechers(records', h) :
                  now - p.last_announced < peer_timeout
            /\ \A p \in Seeders(records, h) \cup Leechers(records, h) :
                  (now - p.last_announced >= peer_timeout)
                  => /\ p \notin Seeders(records', h)
                     /\ p \notin Leechers(records', h) ]_vars

C9_Witness ==
    /\ reap.pc = "scan"
    /\ reap.info_hashes = {}
    /\ reap.leeches_cleared = 1
    /\ DOMAIN records = {"h1"}
    /\ Cardinality(Leechers(records, "h1")) = 1
    /\ nann = 2
    /\ req.pc = "idle"

\* C10: after any sequence of new_leech, new_seed, add_seed, add_leech,
\* sub_seed, sub_leech, promote_leech, cleared_peers, succ_announce,
\* fail_announce and num_fails, no stored counter and no returned count is
\* below 0.
C10_NoUnderflow ==
    /\ \A h \in DOMAIN torrents :
          /\ torrents[h].complete >= 0
          /\ torrents[h].downloaded >= 0
          /\ torrents[h].incomplete >= 0
          /\ torrents[h].balance >= 0
    /\ stats.total_seeders >= 0
    /\ stats.total_leechers >= 0
    /\ stats.announce_requests >= 0
    /\ stats.succ_announces >= 0
    /\ stats.scrapes >= 0
    /\ fails >= 0

\* The first call made is sub_leech, on the counters at 0.
C10_Witness ==
    /\ last.op = "sub_leech"
    /\ last.after = "new"
    /\ stats.total_leechers = 0

\* ------------------------------------------------- the announce request
\* Number of announce requests the service accepts in one behaviour.
MaxRequests == 2

\* numwant = Some(50): the value taken when the parameter does not parse.
numwant_unparsable == 50

\* peer_id values, as the sequences of their characters.
PeerIdAZ == <<"-", "A", "Z", "1", "2", "3", "4", "-">>
PeerIdQB == <<"-", "q", "B", "4", "4", "5", "0", "-">>
PeerIdShort == <<"-", "A", "Z">>
PeerIdOne == <<"-">>
PeerIdEmpty == <<>>

\* The parameters whose value must parse, or the request is malformed.
ParsedParams ==
    {"info_hash", "port", "uploaded", "downloaded", "left", "compact",
     "no_peer_id", "ip"}

\* The values of the event parameter: absent, empty, the three events, and a
\* word that is none of them.
EventParams == {"absent", "", "started", "stopped", "completed", "paused"}

\* The values of the numwant parameter: absent, a word that is no number,
\* and the numbers up to MaxNumwant.
NumwantAbsent == [form |-> "absent", n |-> 0]
NumwantWord == [form |-> "word", n |-> 0]
Numwant(k) == [form |-> "number", n |-> k]
NumwantParams ==
    {NumwantAbsent, NumwantWord} \cup {Numwant(k) : k \in 0..MaxNumwant}

\* A query string and the connection it arrived on. info_hash "" and
\* peer_id <<>> stand for the parameter being absent (the defaults of the
\* parser); unparsable names the parameter whose value does not parse, or is
\* "none"; ip is "absent" or "v6"; remote is the form of the connection's
\* remote address: "v4" (a.b.c.d:port), "bracketed" ([v6]:port) or "absent".
Query(info_hash, peer_id, event, numwant, unparsable, ip, remote) ==
    [info_hash |-> info_hash, peer_id |-> peer_id, event |-> event,
     numwant |-> numwant, unparsable |-> unparsable, ip |-> ip,
     remote |-> remote]

\* string_to_event
string_to_event(s) ==
    CASE s = "started" -> "started"
      [] s = "stopped" -> "stopped"
      [] s = "completed" -> "completed"
      [] s = "" -> "none"
      [] OTHER -> "none"

\* Option<u32>
None == [some |-> FALSE, value |-> 0]
Some(n) == [some |-> TRUE, value |-> n]

\* The numwant arm of AnnounceRequest::new.
parse_numwant(v) ==
    CASE v.form = "absent" -> None
      [] v.form = "word" -> Some(numwant_unparsable)
      [] OTHER -> Some(v.n)

\* The address the peer is built from: the ip parameter, or else the remote
\* address of the connection. A bracketed remote address is parsed with its
\* brackets and the unwrap of the result panics; so does ip.unwrap() when
\* there is no remote address.
resolve_ip(q) ==
    CASE q.ip = "v6" -> [ok |-> TRUE, ip |-> <<"V6", 1>>]
      [] q.remote = "v4" -> [ok |-> TRUE, ip |-> <<"V4", 1>>]
      [] OTHER -> [ok |-> FALSE, ip |-> <<"V4", 0>>]

\* AnnounceRequest::new as it would be if a value that does not parse left
\* the parameter at its default.
AnnounceRequest_new_lenient(q, t) ==
    IF q.info_hash = ""
    THEN [kind |-> "err",
          failure |-> AnnounceResponse_failure("Malformed request")]
    ELSE IF ~resolve_ip(q).ok
    THEN [kind |-> "panic"]
    ELSE [kind |-> "ok",
          info_hash |-> q.info_hash,
          peer |-> MkPeer([peer_id |-> q.peer_id, ip |-> resolve_ip(q).ip,
                           port |-> 6881], t),
          event |-> IF q.event = "absent" THEN "none"
                    ELSE string_to_event(q.event),
          numwant |-> parse_numwant(q.numwant)]

\* AnnounceRequest::new at time t: Ok(request), Err(failure response) or a
\* panic.
AnnounceRequest_new(q, t) ==
    IF q.unparsable \in ParsedParams \/ q.info_hash = ""
    THEN [kind |-> "err",
          failure |-> AnnounceResponse_failure("Malformed request")]
    ELSE IF ~resolve_ip(q).ok
    THEN [kind |-> "panic"]
    ELSE [kind |-> "ok",
          info_hash |-> q.info_hash,
          peer |-> MkPeer([peer_id |-> q.peer_id, ip |-> resolve_ip(q).ip,
                           port |-> 6881], t),
          event |-> IF q.event = "absent" THEN "none"
                    ELSE string_to_event(q.event),
          numwant |-> parse_numwant(q.numwant)]

\* The handler did not return: a panic unwound it and no response body was
\* written.
Panicked ==
    [kind |-> "panic", failure_reason |-> "", complete |-> 0, incomplete |-> 0,
     peers |-> {}, peers6 |-> {}]

\* ------------------------------------------------------- parse_announce
\* The PeerStore calls of the event's arm.
parse_announce_peer_store(store, event, info_hash, peer) ==
    CASE event = "started" -> PeerStore_put_leecher(store, info_hash, peer)
      [] event = "stopped" ->
             PeerStore_remove_leecher(
                 PeerStore_remove_seeder(store, info_hash, peer),
                 info_hash, peer)
      [] event = "completed" -> PeerStore_promote_leecher(store, info_hash, peer)
      [] event = "none" -> PeerStore_update_peer(store, info_hash, peer)

\* The TorrentStore calls as they would be if the stopped arm took the peer
\* off the row's incomplete.
parse_announce_torrent_store_stopped(store, event, info_hash) ==
    CASE event = "started" -> TorrentStore_new_leech(store, info_hash)
      [] event = "completed" -> TorrentStore_new_seed(store, info_hash)
      [] event = "stopped" /\ info_hash \in DOMAIN store ->
             [store EXCEPT ![info_hash] =
                  [@ EXCEPT !.incomplete = saturating_sub(@, 1)]]
      [] OTHER -> store

\* The TorrentStore call of the event's arm.
parse_announce_torrent_store(store, event, info_hash) ==
    CASE event = "started" -> TorrentStore_new_leech(store, info_hash)
      [] event = "completed" -> TorrentStore_new_seed(store, info_hash)
      [] OTHER -> store

\* The responses of a parsed request, after its arm's store calls left the
\* stores as rs and ts: numwant.unwrap() panics on None; otherwise every
\* sample get_peers can return gives one response.
parse_announce_responses(rs, ts, r) ==
    IF ~r.numwant.some
    THEN {Panicked}
    ELSE LET st == TorrentStore_get_announce_stats(ts, r.info_hash) IN
         {AnnounceResponse_new(st[1], st[2], SplitFamilies(list).peers,
                               SplitFamilies(list).peers6) :
             list \in PeerStore_get_peers(rs, r.info_hash, r.numwant.value)}

\* parse_announce on query q with the stores as rs and ts: every outcome
\* (the stores afterwards and the response) it can have.
parse_announce(rs, ts, q) ==
    LET r == AnnounceRequest_new(q, now) IN
    CASE r.kind = "err" ->
             {[records |-> rs, torrents |-> ts, resp |-> r.failure]}
      [] r.kind = "panic" ->
             {[records |-> rs, torrents |-> ts, resp |-> Panicked]}
      [] r.kind = "ok" ->
             LET rs2 == parse_announce_peer_store(rs, r.event, r.info_hash,
                                                  r.peer)
                 ts2 == parse_announce_torrent_store(ts, r.event, r.info_hash)
             IN  {[records |-> rs2, torrents |-> ts2, resp |-> body] :
                     body \in parse_announce_responses(rs2, ts2, r)}

\* ---------------------------------------------------- approval middleware
\* The client tag: &peer_string[1..7] when versioned, &peer_string[1..3]
\* when not. The slice panics when the string is shorter than its end.
\* The end of the slice, which is also the number of characters it needs.
client_check_end(versioned) == IF versioned THEN 7 ELSE 3

client_check(peer_string, versioned) ==
    SubSeq(peer_string, 2, client_check_end(versioned))

\* ClientApprovalMiddleware::call: "reject", "pass" or "panic".
ClientApproval_call(cfg, q) ==
    IF q.peer_id = <<>>
    THEN "reject"
    ELSE IF Len(q.peer_id) < client_check_end(cfg.versioned)
    THEN "panic"
    ELSE IF cfg.blacklist_style
    THEN IF client_check(q.peer_id, cfg.versioned) \in cfg.list
         THEN "reject" ELSE "pass"
    ELSE IF client_check(q.peer_id, cfg.versioned) \in cfg.list
         THEN "pass" ELSE "reject"

\* TorrentApproval as it would be if it prohibited nothing.
TorrentApproval_call_pass(prohibited_list, q) == "pass"

\* TorrentApprovalMiddleware::call: "reject" or "pass".
TorrentApproval_call(prohibited_list, q) ==
    IF q.info_hash \in prohibited_list THEN "reject" ELSE "pass"

\* The service as it would be if a rejecting middleware answered with its
\* failure body after the announce route had run.
Service_call_through(q) ==
    LET client == IF approval.client.enabled
                  THEN ClientApproval_call(approval.client, q)
                  ELSE "pass"
        through(body) ==
            {[o EXCEPT !.resp = body] : o \in parse_announce(records, torrents, q)}
    IN  CASE client = "reject" ->
                 through(AnnounceResponse_failure("Unapproved client"))
          [] client = "panic" ->
                 {[records |-> records, torrents |-> torrents, resp |-> Panicked]}
          [] TorrentApproval_call(approval.prohibited_list, q) = "reject" ->
                 through(AnnounceResponse_failure("Unapproved torrent"))
          [] OTHER -> parse_announce(records, torrents, q)

\* The service built from the middleware and the announce route: every
\* outcome of a request with query q.
Service_call(q) ==
    LET client == IF approval.client.enabled
                  THEN ClientApproval_call(approval.client, q)
                  ELSE "pass"
        same(body) ==
            {[records |-> records, torrents |-> torrents, resp |-> body]}
    IN  CASE client = "reject" ->
                 same(AnnounceResponse_failure("Unapproved client"))
          [] client = "panic" -> same(Panicked)
          [] TorrentApproval_call(approval.prohibited_list, q) = "reject" ->
                 same(AnnounceResponse_failure("Unapproved torrent"))
          [] OTHER -> parse_announce(records, torrents, q)

\* ------------------------------------------------------------ the service
\* The peer AnnounceRequest::new builds from q (the address is <<"V4", 0>>
\* when none can be resolved).
QueryPeer(q) ==
    MkPeer([peer_id |-> q.peer_id, ip |-> resolve_ip(q).ip, port |-> 6881], now)

\* Whether a request with query q reaches the event's arm of parse_announce.
Handled(q) ==
    /\ approval.client.enabled => ClientApproval_call(approval.client, q) = "pass"
    /\ TorrentApproval_call(approval.prohibited_list, q) = "pass"
    /\ AnnounceRequest_new(q, now).kind = "ok"

\* The record of a request: its query, whether it was handled and as which
\* event. `after` is the event of the request just before it when that one
\* was handled and had the same info_hash and the same peer identity.
ServiceRecord(q) ==
    [op |-> "announce", info_hash |-> q.info_hash, peer |-> QueryPeer(q),
     numwant |-> 0, query |-> q, handled |-> Handled(q),
     event |-> IF q.event = "absent" THEN "none" ELSE string_to_event(q.event),
     after |-> IF /\ last.op = "announce"
                  /\ last.handled
                  /\ last.info_hash = q.info_hash
                  /\ SameIdent(last.peer, QueryPeer(q))
               THEN last.event ELSE "other"]

\* One request, from its arrival to its response.
Service(q) ==
    /\ nann < MaxRequests
    /\ nann' = nann + 1
    /\ \E o \in Service_call(q) :
          /\ records' = o.records
          /\ torrents' = o.torrents
          /\ resp' = o.resp
    /\ last' = ServiceRecord(q)
    /\ UNCHANGED <<approval, tlock, handlers, lock, scrape, flush, wire, stats, now, sample, fails, req, reap>>

\* The two clients of the announce specification: one reached over IPv4,
\* one that names an IPv6 address in its ip parameter.
ClientAZ == [peer_id |-> PeerIdAZ, ip |-> "absent", remote |-> "v4"]
ClientQB == [peer_id |-> PeerIdQB, ip |-> "v6", remote |-> "v4"]

\* The queries of the announce specification: every event and numwant value
\* for both clients on h1 and one client on h2, for each parameter that must
\* parse a malformed query and a malformed query that also lacks numwant and
\* a usable remote address, a query without info_hash, and the two remote
\* addresses no peer address can be taken from.
AnnounceQueries ==
    {Query(hc[1], hc[2].peer_id, e, n, "none", hc[2].ip, hc[2].remote) :
        hc \in {<<"h1", ClientAZ>>, <<"h1", ClientQB>>, <<"h2", ClientAZ>>},
        e \in EventParams, n \in NumwantParams}
    \cup {Query("h1", PeerIdAZ, "started", Numwant(1), f, "absent", "v4") :
             f \in ParsedParams}
    \cup {Query("h1", PeerIdAZ, "started", NumwantAbsent, f, "absent",
                 "bracketed") : f \in ParsedParams}
    \cup {Query("", PeerIdAZ, "started", Numwant(1), "none", "absent", "v4")}
    \cup {Query("h1", PeerIdQB, "started", Numwant(1), "none", "absent", r) :
             r \in {"bracketed", "absent"}}

NextAnnounce ==
    \/ \E q \in AnnounceQueries : Service(q)
    \/ ClearPeersStart
    \/ \E h \in InfoHashes : ClearPeersSwarm(h)
    \/ ClearPeersDone
    \/ Tick

\* The announce route without approval middleware, the janitor and the clock.
SpecAnnounce == Init /\ [][NextAnnounce]_vars

\* The configurations of the approval middleware: ClientApproval in each
\* mode with a list of two-character or of six-character tags, or
\* TorrentApproval prohibiting h2.
ApprovalConfigs ==
    {[client |-> [enabled |-> TRUE, blacklist_style |-> b, versioned |-> v,
                  list |-> l],
      prohibited_list |-> {}] :
        b \in BOOLEAN, v \in BOOLEAN,
        l \in {{<<"A", "Z">>}, {<<"A", "Z", "1", "2", "3", "4">>}}}
    \cup {[NoApproval EXCEPT !.prohibited_list = {"h2"}]}

\* The queries of the middleware specification: every peer_id on both
\* info-hashes, well-formed or with an unparsable port.
FilterQueries ==
    {Query(h, p, e, Numwant(1), f, "absent", "v4") :
        h \in InfoHashes,
        p \in {PeerIdAZ, PeerIdQB, PeerIdShort, PeerIdOne, PeerIdEmpty},
        e \in {"started", "stopped"}, f \in {"none", "port"}}

InitFilter ==
    /\ records = [h \in {} |-> Swarm_new]
    /\ torrents = InitTorrents
    /\ stats = GlobalStatistics_new
    /\ now = 0
    /\ last = [op |-> "new", info_hash |-> "", peer |-> NoPeer, numwant |-> 0,
               after |-> "other"]
    /\ sample = NoSample
    /\ fails = 0
    /\ req = IdleReq
    /\ resp = NoResp
    /\ nann = 0
    /\ reap = IdleReap
    /\ approval \in ApprovalConfigs
    /\ scrape = NoScrape
    /\ flush = IdleFlush
    /\ wire = NoWire
    /\ handlers = [i \in HandlerIds |-> IdleHandler]
    /\ lock = RwLock_new
    /\ tlock = RwLock_new

NextFilter == \E q \in FilterQueries : Service(q)

\* The announce route behind the approval middleware.
SpecFilter == InitFilter /\ [][NextFilter]_vars

\* ------------------------------------------- SwarmStore and handle_announce
\* The number of peers handle_announce asks for when numwant is absent.
numwant_default == 30

\* SwarmStore::add_peer
SwarmStore_add_peer(store, info_hash, peer, is_download_complete) ==
    LET swarm == IF info_hash \in DOMAIN store
                 THEN store[info_hash] ELSE Swarm_new
    IN  HashMap_insert(store, info_hash,
                       IF is_download_complete
                       THEN Swarm_add_seeder(swarm, peer)
                       ELSE Swarm_add_leecher(swarm, peer))

\* SwarmStore::remove_peer
SwarmStore_remove_peer(store, info_hash, peer) ==
    IF info_hash \in DOMAIN store
    THEN [store EXCEPT ![info_hash] =
              Swarm_remove_leecher(Swarm_remove_seeder(@, peer), peer)]
    ELSE store

\* SwarmStore::promote_peer
SwarmStore_promote_peer(store, info_hash, peer) ==
    IF info_hash \in DOMAIN store
    THEN [store EXCEPT ![info_hash] = Swarm_promote_leecher(@, peer)]
    ELSE store

\* SwarmStore::get_announce_stats
SwarmStore_get_announce_stats(store, info_hash) ==
    IF info_hash \in DOMAIN store
    THEN <<Cardinality(store[info_hash].seeders),
           Cardinality(store[info_hash].leechers)>>
    ELSE <<0, 0>>

\* The events of a deserialised request: Option<Event>, "absent" for None.
SwarmEvents == {"absent", "started", "stopped", "completed"}

\* handle_announce. The Peer of this handler has no last_announced; it is
\* kept at 0.
HandleAnnounce(event, info_hash, ident, left, numwant) ==
    /\ nann < MaxRequests
    /\ nann' = nann + 1
    /\ LET peer == MkPeer(ident, 0)
           n == IF numwant.some THEN numwant.value ELSE numwant_default
       IN  /\ records' =
                CASE event = "started" ->
                         SwarmStore_add_peer(records, info_hash, peer, left = 0)
                  [] event = "stopped" ->
                         SwarmStore_remove_peer(records, info_hash, peer)
                  [] event = "completed" ->
                         SwarmStore_promote_peer(records, info_hash, peer)
                  [] OTHER -> records
           /\ \E got \in SwarmStore_get_peers(records', info_hash, n) :
                 resp' = AnnounceResponse_new(
                             SwarmStore_get_announce_stats(records', info_hash)[1],
                             SwarmStore_get_announce_stats(records', info_hash)[2],
                             got.peers, got.peers6)
           /\ last' = [op |-> "handle_announce", info_hash |-> info_hash,
                       peer |-> peer, numwant |-> n, left |-> left,
                       handled |-> TRUE,
                       event |-> IF event = "absent" THEN "none" ELSE event,
                       after |-> IF /\ last.op = "handle_announce"
                                    /\ last.info_hash = info_hash
                                    /\ SameIdent(last.peer, peer)
                                 THEN last.event ELSE "other"]
    /\ UNCHANGED <<approval, tlock, handlers, lock, scrape, flush, wire, torrents, stats, now, sample, fails, req, reap>>

NextSwarm ==
    \E e \in SwarmEvents, h \in InfoHashes, i \in PeerIdents, left \in 0..1,
       n \in {None} \cup {Some(k) : k \in 0..MaxNumwant} :
        HandleAnnounce(e, h, i, left, n)

\* handle_announce over the SwarmStore.
SpecSwarm == Init /\ [][NextSwarm]_vars

\* ------------------------------------------------------------------ claims
\* A step that handles an announce of the given event, in either handler.
Announced(event) ==
    /\ last' /= last
    /\ last'.op \in {"announce", "handle_announce"}
    /\ last'.handled
    /\ last'.event = event

\* C11: an announce with event=started puts the announcing peer into the
\* leechers of its info-hash, whatever its left, and into the seeders never;
\* where a TorrentStore is kept and has a row for the info-hash, the row's
\* incomplete grows by one.
C11_StartedIsLeecher ==
    [][Announced("started") =>
         LET h == last'.info_hash
             p == last'.peer
         IN  /\ InSet(Leechers(records', h), p)
             /\ InSet(Seeders(records', h), p) => InSet(Seeders(records, h), p)
             /\ (last'.op = "announce" /\ h \in DOMAIN torrents) =>
                    torrents'[h].incomplete = torrents[h].incomplete + 1]_vars

\* C12: an announce with event=completed for an info-hash that has a torrent
\* row adds one to the row's complete, takes one from its incomplete unless
\* that is 0, and adds one to its downloaded; when the request just before
\* it was a started announce of the same peer for the same info-hash, the
\* peer is afterwards in seeders and not in leechers.
C12_CompletedCounts ==
    [][(Announced("completed") /\ last'.op = "announce") =>
         LET h == last'.info_hash
             p == last'.peer
         IN  /\ h \in DOMAIN torrents =>
                  /\ torrents'[h].complete = torrents[h].complete + 1
                  /\ torrents'[h].incomplete =
                         IF torrents[h].incomplete = 0 THEN 0
                         ELSE torrents[h].incomplete - 1
                  /\ torrents'[h].downloaded = torrents[h].downloaded + 1
             /\ last'.after = "started" =>
                  /\ InSet(Seeders(records', h), p)
                  /\ ~InSet(Leechers(records', h), p)]_vars

\* C13: when no swarm exists, a started announce that carries a numwant and
\* is the first request, for an info-hash without a torrent row, is answered with a success response
\* whose complete and incomplete are 0 and whose peers and peers6 are empty.
C13_FirstAnnounceEmpty ==
    [][(/\ Announced("started")
        /\ last'.op = "announce"
        /\ last'.query.numwant.form /= "absent"
        /\ nann = 0
        /\ DOMAIN records = {}
        /\ last'.info_hash \notin DOMAIN torrents) =>
         /\ resp'.kind = "success"
         /\ resp'.complete = 0
         /\ resp'.incomplete = 0
         /\ resp'.peers = {}
         /\ resp'.peers6 = {}]_vars

\* C14: an announce with event=none by a peer that is in neither set of the
\* swarm (as after a started announce, a silence longer than peer_timeout
\* and a pass of the janitor) does not register it: the peer is in neither
\* set afterwards and is in neither list of the response.
C14_NoneDoesNotRegister ==
    [][(/\ Announced("none")
        /\ last'.op = "announce"
        /\ ~InSet(Seeders(records, last'.info_hash), last'.peer)
        /\ ~InSet(Leechers(records, last'.info_hash), last'.peer)) =>
         /\ ~InSet(Seeders(records', last'.info_hash), last'.peer)
         /\ ~InSet(Leechers(records', last'.info_hash), last'.peer)
         /\ \A e \in resp'.peers \cup resp'.peers6 :
                ~SameIdent(e.peer, last'.peer)]_vars

\* The request before this none announce was a started announce of the same
\* peer for the same info-hash. The none announce came peer_timeout or more
\* later and asked for at least one peer, and its response lists nobody: the
\* swarm the peer had joined was empty by then, the janitor had removed it.
C14_Witness ==
    /\ last.op = "announce"
    /\ last.handled
    /\ last.event = "none"
    /\ last.after = "started"
    /\ last.peer.last_announced >= peer_timeout
    /\ last.query.numwant.form = "number"
    /\ last.query.numwant.n >= 1
    /\ last.info_hash \in DOMAIN records
    /\ ~InSet(Seeders(records, last.info_hash), last.peer)
    /\ ~InSet(Leechers(records, last.info_hash), last.peer)
    /\ resp.kind = "success"
    /\ resp.peers = {}
    /\ resp.peers6 = {}

\* A step that serves a request, whatever becomes of it.
Served == last' /= last /\ last'.op = "announce"

\* The characters [1..end) of peer_id, as many of them as there are.
ClientTag(peer_id, versioned) ==
    [i \in 1..(Min(Len(peer_id), client_check_end(versioned)) - 1) |->
        peer_id[i + 1]]

\* C15: with ClientApproval in place, a request without peer_id is rejected;
\* any other request is rejected exactly when its client tag is in the list
\* (blacklist mode), or exactly when it is not in the list (whitelist mode).
\* Rejected means answered with the failure "Unapproved client".
C15_ClientFilterDecides ==
    [][(Served /\ approval.client.enabled) =>
         LET q == last'.query
             tag == ClientTag(q.peer_id, approval.client.versioned)
             rejected == resp' = AnnounceResponse_failure("Unapproved client")
         IN  IF q.peer_id = <<>>
             THEN rejected
             ELSE IF approval.client.blacklist_style
             THEN rejected <=> tag \in approval.client.list
             ELSE rejected <=> tag \notin approval.client.list]_vars

\* Whether ClientApproval, when in place, rejects the request of query q.
ClientRejects(q) ==
    /\ approval.client.enabled
    /\ ClientApproval_call(approval.client, q) = "reject"

\* Whether TorrentApproval rejects the request of query q, once
\* ClientApproval has let it pass.
TorrentRejects(q) ==
    /\ approval.client.enabled => ClientApproval_call(approval.client, q) = "pass"
    /\ TorrentApproval_call(approval.prohibited_list, q) = "reject"

\* C16: a request that ClientApproval or TorrentApproval rejects leaves the
\* PeerStore and the TorrentStore as they were, and its response is the
\* failure body of the middleware that rejected it.
C16_RejectedLeavesStores ==
    [][(Served /\ (ClientRejects(last'.query) \/ TorrentRejects(last'.query))) =>
         /\ records' = records
         /\ torrents' = torrents
         /\ resp' = IF ClientRejects(last'.query)
                    THEN AnnounceResponse_failure("Unapproved client")
                    ELSE AnnounceResponse_failure("Unapproved torrent")]_vars

\* A well-formed started announce was rejected as "Unapproved client" while
\* a swarm existed, and its peer is not in the swarm of its info-hash.
C16_Witness ==
    /\ last.op = "announce"
    /\ ~last.handled
    /\ last.query.event = "started"
    /\ last.query.unparsable = "none"
    /\ resp = AnnounceResponse_failure("Unapproved client")
    /\ DOMAIN records /= {}
    /\ ~InSet(Leechers(records, last.info_hash), last.peer)

\* C17: a request that reaches TorrentApproval is answered with the failure
\* "Unapproved torrent" exactly when its info_hash is in the prohibited
\* list; any other request has an outcome of parse_announce on the same
\* query and the same stores.
C17_TorrentFilterDecides ==
    [][(/\ Served
        /\ approval.client.enabled =>
               ClientApproval_call(approval.client, last'.query) = "pass") =>
         LET q == last'.query IN
         /\ resp' = AnnounceResponse_failure("Unapproved torrent")
                <=> q.info_hash \in approval.prohibited_list
         /\ q.info_hash \notin approval.prohibited_list =>
                [records |-> records', torrents |-> torrents', resp |-> resp']
                    \in parse_announce(records, torrents, q)]_vars

\* After an announce for h1 was let through and registered its peer, an
\* announce for the prohibited h2 was answered with "Unapproved torrent".
C17_Witness ==
    /\ last.op = "announce"
    /\ last.query.info_hash = "h2"
    /\ approval.prohibited_list = {"h2"}
    /\ resp = AnnounceResponse_failure("Unapproved torrent")
    /\ Leechers(records, "h1") /= {}
    /\ "h2" \notin DOMAIN records

\* C18: an announce without info_hash, or with a value that does not parse
\* for info_hash, port, uploaded, downloaded, left, compact, no_peer_id or
\* ip, is answered with a failure response that carries a failure_reason,
\* and leaves the PeerStore and the TorrentStore as they were.
C18_MalformedFails ==
    [][(/\ Served
        /\ \/ last'.query.unparsable \in ParsedParams
           \/ last'.query.info_hash = "") =>
         /\ resp'.kind = "failure"
         /\ resp'.failure_reason /= ""
         /\ records' = records
         /\ torrents' = torrents]_vars

\* A started announce with an unparsable port was answered with a failure
\* while another peer was registered, and its own peer is not.
C18_Witness ==
    /\ last.op = "announce"
    /\ last.query.unparsable = "port"
    /\ last.query.event = "started"
    /\ resp = AnnounceResponse_failure("Malformed request")
    /\ Leechers(records, last.info_hash) /= {}
    /\ ~InSet(Leechers(records, last.info_hash), last.peer)

\* C19: an announce that is handled and carries no numwant is answered with
\* a success response, for every event.
C19_NumwantOptional ==
    [][(/\ Served
        /\ last'.handled
        /\ last'.query.numwant.form = "absent") =>
         resp'.kind = "success"]_vars

\* C20: an announce whose event parameter is a word other than started,
\* stopped and completed (and which carries a numwant) is answered with a
\* failure response and leaves the PeerStore and the TorrentStore as they
\* were.
C20_UnknownEventFails ==
    [][(/\ Served
        /\ last'.query.numwant.form /= "absent"
        /\ last'.query.event \notin
               {"absent", "", "started", "stopped", "completed"}) =>
         /\ resp'.kind = "failure"
         /\ records' = records
         /\ torrents' = torrents]_vars

\* ------------------------------------------------------- the scrape route
\* Largest number of key=value pairs in the query string of a scrape.
MaxPairs == 2

ScrapeKeys == {"info_hash", "bad_stuff"}

\* The query strings of scrape requests, as the sequences of their pairs:
\* the empty one, and every sequence of up to MaxPairs pairs whose values are
\* h1 (which has a row) and h2 (which has none).
ScrapeQueries ==
    UNION {[1..n -> ScrapeKeys \X InfoHashes] : n \in 0..MaxPairs}

\* GET /scrape?pairs, handled by parse_scrape.
Scrape(pairs) ==
    /\ scrape' = parse_scrape(torrents, pairs)
    /\ UNCHANGED <<approval, tlock, handlers, lock, flush, wire, records, torrents, stats, now, last, sample, fails,
                   procVars>>

\* Scrapes between announces that move the counters of the rows.
NextScrape ==
    \/ \E pairs \in ScrapeQueries : Scrape(pairs)
    \/ \E h \in InfoHashes : NewSeed(h) \/ NewLeech(h)

SpecScrape == Init /\ [][NextScrape]_vars

OnlyInfoHash(pairs) == \A i \in 1..Len(pairs) : pairs[i][1] = "info_hash"

\* C21: a scrape whose query string has a key other than info_hash is
\* answered with the body d14:failure_reason24:Malformed scrape requeste and
\* get_scrapes is not called; a query with info_hash keys only parses to a
\* request that lists the values in the order given.
C21_MalformedScrape ==
    (scrape.op = "scrape")
    => IF OnlyInfoHash(scrape.query)
       THEN /\ scrape.request.kind = "ok"
            /\ scrape.request.info_hashes
                 = [i \in 1..Len(scrape.query) |-> scrape.query[i][2]]
       ELSE /\ scrape.body = FailureBody("Malformed scrape request")
            /\ ~scrape.get_scrapes

\* C22: a scrape with the empty query string is answered with a failure
\* response.
C22_EmptyScrapeFails ==
    (scrape.op = "scrape" /\ scrape.query = <<>>)
    => scrape.response.failure_reason # {}

\* The requested hashes that have a row, in the order requested.
WithRow(store, info_hashes) ==
    SelectSeq(info_hashes, LAMBDA h : h \in DOMAIN store)

\* C23: get_scrapes(hashes) returns, for each requested hash that has a row,
\* one entry with the row's complete, downloaded and incomplete, returns no
\* entry for a requested hash without a row, and leaves the TorrentStore as
\* it was.
C23_ScrapesMatchRows ==
    [][ (scrape' # scrape /\ scrape'.get_scrapes)
        => /\ torrents' = torrents
           /\ LET found == WithRow(torrents, scrape'.request.info_hashes) IN
              /\ Len(scrape'.scrape_files) = Len(found)
              /\ \A i \in 1..Len(found) :
                    /\ scrape'.scrape_files[i].info_hash = found[i]
                    /\ scrape'.scrape_files[i].complete
                         = torrents[found[i]].complete
                    /\ scrape'.scrape_files[i].downloaded
                         = torrents[found[i]].downloaded
                    /\ scrape'.scrape_files[i].incomplete
                         = torrents[found[i]].incomplete ]_vars

\* h2 and then h1 were asked for after an announce had moved h1's counters.
C23_Witness ==
    /\ scrape.op = "scrape"
    /\ scrape.get_scrapes
    /\ scrape.request.info_hashes = <<"h2", "h1">>
    /\ Len(scrape.scrape_files) = 1
    /\ scrape.scrape_files[1].info_hash = "h1"
    /\ scrape.scrape_files[1].incomplete = 1
    /\ torrents["h1"].incomplete = 1

\* ---------------------------------------------------------- Janitor::flush
\* Number of flush tasks the interval spawns in one behaviour.
MaxFlushes == 3

\* INSERT ... ON DUPLICATE KEY UPDATE of the rows given: a row of the table
\* whose info_hash is not among them stays as it is.
upsert(db, rows) ==
    [h \in DOMAIN db \cup DOMAIN rows |->
        IF h \in DOMAIN rows THEN rows[h] ELSE db[h]]

\* flush_torrents: every result it can return and the table it leaves. Ok
\* after exec_batch wrote every row; Err from get_conn, the table untouched,
\* or from exec_batch, the rows before the failing statement written.
flush_torrents(db, rows) ==
    {[result |-> "ok", db |-> upsert(db, rows)],
     [result |-> "err", db |-> db]}
    \cup {[result |-> "err", db |-> upsert(db, [h \in written |-> rows[h]])] :
             written \in (SUBSET DOMAIN rows) \ {DOMAIN rows}}

\* The actor's context as it would be if it went on scheduling while
\* flush_torrents runs.
Janitor_busy_never(f) == FALSE

\* flush_torrents is called without an await: from the snapshot to its return
\* the task occupies the thread of the actor's context, which runs neither
\* the interval's handler nor another task of the actor meanwhile.
Janitor_busy(f) == f.running # <<>>

\* The result as it would be handled by unwrap: an Err ends the actor.
Janitor_flush_result_unwrap(f, result) ==
    [f EXCEPT !.result = result, !.scheduled = (result = "ok")]

\* let _result = flush_torrents(..): the result is dropped.
Janitor_flush_result(f, result) == [f EXCEPT !.result = result]

\* run_interval(flush_interval, Self::flush) fires: flush spawns a task,
\* which waits for the read lock of the TorrentStore.
FlushTick ==
    /\ flush.scheduled
    /\ ~Janitor_busy(flush)
    /\ flush.spawned < MaxFlushes
    /\ flush' = [flush EXCEPT !.waiting = @ + 1, !.spawned = @ + 1]
    /\ UNCHANGED <<approval, tlock, handlers, lock, scrape, wire, records, torrents, stats, now, last, sample,
                   fails, procVars>>

\* A waiting task gets the read lock, clones the rows and calls
\* flush_torrents.
FlushSnapshot ==
    /\ flush.waiting > 0
    /\ ~Janitor_busy(flush)
    /\ flush' = [flush EXCEPT !.waiting = @ - 1,
                              !.running = Append(@, torrents)]
    /\ UNCHANGED <<approval, tlock, handlers, lock, scrape, wire, records, torrents, stats, now, last, sample,
                   fails, procVars>>

\* flush_torrents returns and the task ends.
FlushDone ==
    /\ flush.running # <<>>
    /\ \E o \in flush_torrents(flush.db, Head(flush.running)) :
          flush' = [Janitor_flush_result(flush, o.result) EXCEPT
                       !.running = Tail(@), !.db = o.db]
    /\ UNCHANGED <<approval, tlock, handlers, lock, scrape, wire, records, torrents, stats, now, last, sample,
                   fails, procVars>>

\* The flusher beside request handlers that move the counters.
NextFlush ==
    \/ FlushTick
    \/ FlushSnapshot
    \/ FlushDone
    \/ \E h \in InfoHashes : NewSeed(h) \/ NewLeech(h)

SpecFlush == Init /\ [][NextFlush]_vars

\* C24: at most one flush task is between its snapshot of the TorrentStore
\* and the return of flush_torrents, however the interval's ticks fall
\* relative to the time flush_torrents takes.
C24_OneFlushAtATime == Len(flush.running) <= 1

\* A flush is in progress while a task spawned by another tick waits.
C24_Witness ==
    /\ Len(flush.running) = 1
    /\ flush.waiting >= 1
    /\ flush.spawned >= 2

\* C25: a flush that fails leaves the TorrentStore and the PeerStore as they
\* were and the interval scheduled; after it the next tick can fire and
\* requests can be handled, and the next snapshot taken is that of the
\* counters of that moment.
C25_FailedFlushGoesOn ==
    /\ [][ /\ (flush'.result = "err" /\ Len(flush'.running) < Len(flush.running))
              => /\ torrents' = torrents
                 /\ records' = records
                 /\ flush'.scheduled
           /\ (flush.result = "err" /\ Len(flush'.running) > Len(flush.running))
              => flush'.running[Len(flush'.running)] = torrents ]_vars
    /\ []( (flush.result = "err" /\ flush.running = <<>>)
           => /\ flush.spawned < MaxFlushes => ENABLED FlushTick
              /\ torrents["h1"].incomplete < MaxCount => ENABLED NewLeech("h1") )

\* The first flush failed; the second has taken its snapshot, whose counters
\* are not those of the table.
C25_Witness ==
    /\ flush.result = "err"
    /\ flush.spawned = 2
    /\ flush.waiting = 0
    /\ flush.running = <<torrents>>
    /\ torrents["h1"].incomplete = 1
    /\ flush.db["h1"].incomplete = 0

\* ------------------------------------------------------ the compact format
\* Largest number of peers in one list of a response.
MaxPeers == 2

\* Peerv4 values with their Ipv4Addr as its four octets, and Peerv6 values
\* with their Ipv6Addr as its eight 16-bit segments.
CompactPeersV4 ==
    {[ip |-> <<127, 0, 0, 1>>, port |-> 6681],
     [ip |-> <<10, 0, 200, 2>>, port |-> 80],
     [ip |-> <<1, 2, 3, 4>>, port |-> 65535]}

CompactPeersV6 ==
    {[ip |-> <<8193, 3512, 34211, 0, 0, 35374, 880, 29492>>, port |-> 6681],
     [ip |-> <<65152, 0, 0, 0, 514, 46079, 65054, 33577>>, port |-> 6699],
     [ip |-> <<0, 0, 0, 0, 0, 0, 0, 1>>, port |-> 256]}

\* u32::from(Ipv4Addr)
u32_from_Ipv4Addr(ip) ==
    ip[1] * 16777216 + ip[2] * 65536 + ip[3] * 256 + ip[4]

\* u32::to_be_bytes
u32_to_be_bytes(n) ==
    <<n \div 16777216, (n \div 65536) % 256, (n \div 256) % 256, n % 256>>

\* A conversion of the port that puts the low byte first.
u16_to_le_bytes(n) == <<n % 256, n \div 256>>

\* u16::to_be_bytes
u16_to_be_bytes(n) == <<n \div 256, n % 256>>

\* u128::from(Ipv6Addr) followed by u128::to_be_bytes, the u128 held as its
\* eight 16-bit limbs, the most significant first.
RECURSIVE u128_to_be_bytes(_)
u128_to_be_bytes(limbs) ==
    IF limbs = <<>> THEN <<>>
    ELSE u16_to_be_bytes(Head(limbs)) \o u128_to_be_bytes(Tail(limbs))

\* impl Compact for Peerv4
Peerv4_compact(p) ==
    u32_to_be_bytes(u32_from_Ipv4Addr(p.ip)) \o u16_to_be_bytes(p.port)

\* impl Compact for Peerv6
Peerv6_compact(p) == u128_to_be_bytes(p.ip) \o u16_to_be_bytes(p.port)

\* impl Compact for Peer
Peer_compact(p) == IF Len(p.ip) = 4 THEN Peerv4_compact(p) ELSE Peerv6_compact(p)

\* peersv4_as_compact / peersv6_as_compact: the compact forms pushed in the
\* order of the list, then concat().
RECURSIVE as_compact(_)
as_compact(peers) ==
    IF peers = <<>> THEN <<>>
    ELSE Peer_compact(Head(peers)) \o as_compact(Tail(peers))

PeerLists(set) == UNION {[1..n -> set] : n \in 0..MaxPeers}

\* A success response with these two lists is encoded.
Encode(peers, peers6) ==
    /\ wire' = [op |-> "encode", peers |-> peers, peers6 |-> peers6,
                compact |-> as_compact(peers), compact6 |-> as_compact(peers6)]
    /\ UNCHANGED <<approval, tlock, handlers, lock, scrape, flush, storeVars, procVars>>

NextCompact ==
    \E peers \in PeerLists(CompactPeersV4), peers6 \in PeerLists(CompactPeersV6) :
        Encode(peers, peers6)

SpecCompact == Init /\ [][NextCompact]_vars

\* The bytes of the i-th record of width w in a compact list.
Slot(bytes, w, i) == SubSeq(bytes, w * (i - 1) + 1, w * i)

IsByte(b) == b \in 0..255

\* C26: the compact list of a response has one record per peer, in the order
\* of the list: for an IPv4 peer 6 bytes, the 4 octets of the address from
\* the most significant, then the port's high byte and low byte; for an IPv6
\* peer 18 bytes, the 8 segments of the address from the most significant,
\* each high byte first, then the port; the lengths are 6 and 18 times the
\* number of peers.
C26_CompactRecords ==
    (wire.op = "encode")
    => /\ Len(wire.compact) = 6 * Len(wire.peers)
       /\ Len(wire.compact6) = 18 * Len(wire.peers6)
       /\ \A i \in 1..Len(wire.compact) : IsByte(wire.compact[i])
       /\ \A i \in 1..Len(wire.compact6) : IsByte(wire.compact6[i])
       /\ \A i \in 1..Len(wire.peers) :
             LET r == Slot(wire.compact, 6, i) IN
             /\ SubSeq(r, 1, 4) = wire.peers[i].ip
             /\ r[5] * 256 + r[6] = wire.peers[i].port
       /\ \A i \in 1..Len(wire.peers6) :
             LET r == Slot(wire.compact6, 18, i) IN
             /\ \A k \in 1..8 :
                   r[2 * k - 1] * 256 + r[2 * k] = wire.peers6[i].ip[k]
             /\ r[17] * 256 + r[18] = wire.peers6[i].port

\* Two different IPv4 peers and an IPv6 peer were encoded.
C26_Witness ==
    /\ wire.op = "encode"
    /\ Len(wire.peers) = 2
    /\ wire.peers[1] # wire.peers[2]
    /\ wire.peers[2].port = 6681
    /\ Len(wire.peers6) >= 1
    /\ wire.peers6[1].port = 6699
    /\ Len(wire.compact) = 12
    /\ wire.compact[11] = 26
    /\ wire.compact[12] = 25

\* ------------------------------------------- concurrent announce handlers
\* Number of announce requests the workers accept in one behaviour.
MaxRaces == 3

\* records.write() as it would be if it excluded writers only.
RwLock_try_write_shared(l) == l.writer = 0

\* records.write().await is granted: no writer and no reader holds the lock.
RwLock_try_write(l) == l.writer = 0 /\ l.readers = {}

\* records.read().await is granted: no writer holds the lock.
RwLock_try_read(l) == l.writer = 0

\* The first PeerStore method of the arm of an event.
FirstCall(event) ==
    CASE event = "started" -> "w_put_leecher"
      [] event = "stopped" -> "w_remove_seeder"
      [] event = "completed" -> "w_promote_leecher"
      [] event = "none" -> "w_update_peer"

\* The positions at which a handler awaits the write lock, and the position
\* inside the method once it holds the guard.
Awaited ==
    [w_put_leecher |-> "put_leecher", w_remove_seeder |-> "remove_seeder",
     w_remove_leecher |-> "remove_leecher", w_promote_leecher |-> "take",
     w_update_peer |-> "update_seeder"]

\* The positions of a stopped announce after its second removal.
PastRemoval == {"r_get_peers", "copy_leechers", "respond"}

SetHandler(i, h) == handlers' = [handlers EXCEPT ![i] = h]

\* AnnounceRequest::new on a well-formed query, in worker i.
HandlerReceive(i, event, info_hash, ident) ==
    /\ handlers[i].pc = "idle"
    /\ nann < MaxRaces
    /\ nann' = nann + 1
    /\ SetHandler(i, [IdleHandler EXCEPT !.pc = FirstCall(event),
                                         !.event = event,
                                         !.info_hash = info_hash,
                                         !.peer = MkPeer(ident, now)])
    /\ UNCHANGED <<approval, tlock, scrape, flush, wire, lock, storeVars, req, resp, reap>>

\* let mut store = self.records.write().await, in any of the methods.
HandlerWrite(i) ==
    LET me == handlers[i] IN
    /\ me.pc \in DOMAIN Awaited
    /\ RwLock_try_write(lock)
    /\ lock' = [lock EXCEPT !.writer = i]
    /\ handlers' =
         [j \in HandlerIds |->
            IF j = i THEN [me EXCEPT !.pc = Awaited[me.pc]]
            ELSE IF /\ me.event \in {"started", "completed"}
                    /\ handlers[j].event = "stopped"
                    /\ handlers[j].pc \in PastRemoval
                    /\ handlers[j].info_hash = me.info_hash
                    /\ SameIdent(handlers[j].peer, me.peer)
                 THEN [handlers[j] EXCEPT !.rejoined = TRUE]
                 ELSE handlers[j]]
    /\ UNCHANGED <<approval, tlock, scrape, flush, wire, storeVars, procVars>>

\* The body of a method that makes one call on the swarm, and the drop of the
\* guard at its return.
HandlerCall(i, pc, after, next) ==
    /\ handlers[i].pc = pc
    /\ records' = after
    /\ lock' = [lock EXCEPT !.writer = 0]
    /\ SetHandler(i, [handlers[i] EXCEPT !.pc = next])
    /\ UNCHANGED <<approval, tlock, scrape, flush, wire, torrents, stats, now, last, sample,
                   fails, procVars>>

\* put_leecher as it would be if the handler kept the guard of the PeerStore
\* after the method returned.
HandlerPutLeecher_guarded(i) ==
    /\ handlers[i].pc = "put_leecher"
    /\ records' = PeerStore_put_leecher(records, handlers[i].info_hash,
                                        handlers[i].peer)
    /\ SetHandler(i, [handlers[i] EXCEPT !.pc = "torrent_store"])
    /\ UNCHANGED <<approval, tlock, scrape, flush, wire, lock, torrents, stats, now,
                   last, sample, fails, procVars>>

HandlerPutLeecher(i) ==
    HandlerCall(i, "put_leecher",
                PeerStore_put_leecher(records, handlers[i].info_hash,
                                      handlers[i].peer),
                "torrent_store")

HandlerRemoveSeeder(i) ==
    HandlerCall(i, "remove_seeder",
                PeerStore_remove_seeder(records, handlers[i].info_hash,
                                        handlers[i].peer),
                "w_remove_leecher")

HandlerRemoveLeecher(i) ==
    HandlerCall(i, "remove_leecher",
                PeerStore_remove_leecher(records, handlers[i].info_hash,
                                         handlers[i].peer),
                "r_get_peers")

\* promote_leecher up to the match: self.leechers.take(&peer). Without a
\* swarm the method returns at once.
HandlerTake(i) ==
    LET me == handlers[i] IN
    /\ me.pc = "take"
    /\ IF me.info_hash \in DOMAIN records
       THEN /\ records' = [records EXCEPT ![me.info_hash].leechers =
                              HashSet_remove(@, me.peer)]
            /\ SetHandler(i, [me EXCEPT
                  !.pc = "insert",
                  !.taken = HashSet_take(records[me.info_hash].leechers, me.peer)])
            /\ lock' = lock
       ELSE /\ records' = records
            /\ SetHandler(i, [me EXCEPT !.pc = "torrent_store"])
            /\ lock' = [lock EXCEPT !.writer = 0]
    /\ UNCHANGED <<approval, tlock, scrape, flush, wire, torrents, stats, now, last, sample,
                   fails, procVars>>

\* The arms of the match: self.seeders.insert of the leecher taken, or of the
\* peer of the request; then the guard is dropped.
HandlerInsert(i) ==
    LET me == handlers[i] IN
    HandlerCall(i, "insert",
                [records EXCEPT ![me.info_hash].seeders =
                    HashSet_insert(@, IF me.taken # {}
                                      THEN CHOOSE q \in me.taken : TRUE
                                      ELSE me.peer)],
                "torrent_store")

\* update_peer: sw.update_seeder(peer.clone()). Without a swarm the method
\* returns at once.
HandlerUpdateSeeder(i) ==
    LET me == handlers[i] IN
    /\ me.pc = "update_seeder"
    /\ IF me.info_hash \in DOMAIN records
       THEN /\ records' = [records EXCEPT ![me.info_hash] =
                              Swarm_update_seeder(@, me.peer)]
            /\ SetHandler(i, [me EXCEPT !.pc = "update_leecher"])
            /\ lock' = lock
       ELSE /\ records' = records
            /\ SetHandler(i, [me EXCEPT !.pc = "r_get_peers"])
            /\ lock' = [lock EXCEPT !.writer = 0]
    /\ UNCHANGED <<approval, tlock, scrape, flush, wire, torrents, stats, now, last, sample,
                   fails, procVars>>

\* update_peer: sw.update_leecher(peer), and the drop of the guard.
HandlerUpdateLeecher(i) ==
    HandlerCall(i, "update_leecher",
                [records EXCEPT ![handlers[i].info_hash] =
                    Swarm_update_leecher(@, handlers[i].peer)],
                "r_get_peers")

\* Event::Started: new_leech; Event::Completed: new_seed.
HandlerTorrentStore(i) ==
    LET me == handlers[i] IN
    /\ me.pc = "torrent_store"
    /\ torrents' = IF me.event = "started"
                   THEN TorrentStore_new_leech(torrents, me.info_hash)
                   ELSE TorrentStore_new_seed(torrents, me.info_hash)
    /\ SetHandler(i, [me EXCEPT !.pc = "r_get_peers"])
    /\ UNCHANGED <<approval, tlock, scrape, flush, wire, lock, records, stats, now, last,
                   sample, fails, procVars>>

\* get_peers: the read lock is granted and the seeders are collected.
HandlerRead(i) ==
    LET me == handlers[i] IN
    /\ me.pc = "r_get_peers"
    /\ RwLock_try_read(lock)
    /\ lock' = [lock EXCEPT !.readers = @ \cup {i}]
    /\ SetHandler(i, [me EXCEPT !.pc = "copy_leechers",
                                !.seeds = Seeders(records, me.info_hash)])
    /\ UNCHANGED <<approval, tlock, scrape, flush, wire, storeVars, procVars>>

\* get_peers: the leechers are collected; the guard is dropped at the return.
HandlerCopyLeechers(i) ==
    LET me == handlers[i] IN
    /\ me.pc = "copy_leechers"
    /\ lock' = [lock EXCEPT !.readers = @ \ {i}]
    /\ SetHandler(i, [me EXCEPT !.pc = "respond",
                                !.leeches = Leechers(records, me.info_hash)])
    /\ UNCHANGED <<approval, tlock, scrape, flush, wire, storeVars, procVars>>

\* give_random on the vector collected, get_announce_stats and the reply.
HandlerRespond(i) ==
    LET me == handlers[i]
        list == {[from |-> "seeders", peer |-> p] : p \in me.seeds}
                \cup {[from |-> "leechers", peer |-> p] : p \in me.leeches}
        st == TorrentStore_get_announce_stats(torrents, me.info_hash)
    IN
    /\ me.pc = "respond"
    /\ \E given \in PeerList_give_random(list, MaxNumwant) :
          resp' = AnnounceResponse_new(st[1], st[2], SplitFamilies(given).peers,
                                       SplitFamilies(given).peers6)
    /\ SetHandler(i, IdleHandler)
    /\ UNCHANGED <<approval, tlock, scrape, flush, wire, lock, storeVars, req, nann, reap>>

\* The janitor's pass beside the handlers: its snapshot under the read lock
\* and each turn of its loop under the write lock.
LockedClearPeersStart == RwLock_try_read(lock) /\ ClearPeersStart

LockedClearPeersSwarm(info_hash) ==
    RwLock_try_write(lock) /\ ClearPeersSwarm(info_hash)

NextRace ==
    \/ \E i \in HandlerIds, e \in Events, ident \in PeerIdents :
          HandlerReceive(i, e, "h1", ident)
    \/ \E i \in HandlerIds :
          \/ HandlerWrite(i)
          \/ HandlerPutLeecher(i)
          \/ HandlerRemoveSeeder(i)
          \/ HandlerRemoveLeecher(i)
          \/ HandlerTake(i)
          \/ HandlerInsert(i)
          \/ HandlerUpdateSeeder(i)
          \/ HandlerUpdateLeecher(i)
          \/ HandlerTorrentStore(i)
          \/ HandlerRead(i)
          \/ HandlerCopyLeechers(i)
          \/ HandlerRespond(i)
    \/ LockedClearPeersStart
    \/ \E h \in InfoHashes : LockedClearPeersSwarm(h)
    \/ ClearPeersDone

SpecRace == Init /\ [][NextRace]_vars

\* Worker i holds the guard inside promote_leecher.
InPromote(i) == handlers[i].pc \in {"take", "insert"}

\* The positions from which the next step of a handler reads or writes the
\* swarms or takes their lock.
PeerStorePositions ==
    DOMAIN Awaited
    \cup {"put_leecher", "remove_seeder", "remove_leecher", "take", "insert",
          "update_seeder", "update_leecher", "r_get_peers", "copy_leechers"}

\* C27: promote_leecher takes the peer out of leechers and puts it into
\* seeders inside one exclusive critical section: while a handler is inside
\* it, that handler is the writer and there is no reader, no other handler
\* takes a step on the PeerStore, the janitor neither takes its snapshot nor
\* scans a swarm, and a get_peers in progress collects its leechers from the
\* swarm it collected its seeders from; the section of a promotion in a
\* swarm that exists ends with the peer in seeders and not in leechers.
C27_PromotionAtomic ==
    /\ [](\A i \in HandlerIds :
             InPromote(i) => (lock.writer = i /\ lock.readers = {}))
    /\ [][ \A i \in HandlerIds :
             /\ InPromote(i)
                => /\ \A j \in HandlerIds \ {i} :
                        (handlers[j].pc \in PeerStorePositions)
                        => handlers'[j] = handlers[j]
                   /\ reap' # reap => reap'.pc = "idle"
                   /\ (handlers[i].pc = "insert" /\ ~InPromote(i)')
                      => /\ InSet(Seeders(records', handlers[i].info_hash),
                                  handlers[i].peer)
                         /\ ~InSet(Leechers(records', handlers[i].info_hash),
                                   handlers[i].peer)
             /\ (handlers[i].pc = "copy_leechers" /\ handlers'[i].pc = "respond")
                => handlers[i].seeds = Seeders(records, handlers[i].info_hash)
         ]_vars

\* A leecher has been taken and is not yet a seeder, while the other worker
\* awaits the read lock for the same swarm.
C27_Witness ==
    /\ handlers[1].pc = "insert"
    /\ handlers[1].taken # {}
    /\ ~InSet(Seeders(records, "h1"), handlers[1].peer)
    /\ ~InSet(Leechers(records, "h1"), handlers[1].peer)
    /\ handlers[2].pc = "r_get_peers"
    /\ handlers[2].info_hash = "h1"

\* C28: when a stopped announce for (h,P) finishes, P is in neither
\* seeders(h) nor leechers(h), unless a started or completed announce for
\* (h,P) has acquired the write lock of the PeerStore after the second
\* removal of the stopped handler.
C28_StoppedLeavesNoPeer ==
    [][ \A i \in HandlerIds :
          ( /\ handlers[i].event = "stopped"
            /\ handlers[i].pc = "respond"
            /\ handlers'[i].pc = "idle"
            /\ ~handlers[i].rejoined )
          => /\ ~InSet(Seeders(records, handlers[i].info_hash), handlers[i].peer)
             /\ ~InSet(Leechers(records, handlers[i].info_hash), handlers[i].peer)
      ]_vars

\* C29: a started, completed or none announce of a peer that is already in
\* seeders(h) or leechers(h) leaves every stored entry of that peer in the
\* swarm of h with last_announced equal to the time of the announce.
C29_AnnounceRefreshes ==
    [][ ( /\ req.pc = "peer_store"
          /\ req'.pc # "peer_store"
          /\ req.event \in {"started", "completed", "none"}
          /\ \/ InSet(Seeders(records, req.info_hash), req.peer)
             \/ InSet(Leechers(records, req.info_hash), req.peer) )
        => \A q \in Entries(Seeders(records', req.info_hash)
                            \cup Leechers(records', req.info_hash), req.peer) :
              q.last_announced = req.peer.last_announced ]_vars

\* ------------------------------------------------- the janitor's interval
\* run_interval(reap_interval, Self::clear_peers) fires again and again, and
\* the task it spawns is granted the locks it awaits: a pass that can start
\* starts, a pass under way scans its next swarm, and a pass that has
\* scanned them all ends.  The requests are the well-formed announces of
\* both clients on h1 and of one on h2, with every event.
ReaperQueries ==
    {Query(hc[1], hc[2].peer_id, e, Numwant(1), "none", hc[2].ip, hc[2].remote) :
        hc \in {<<"h1", ClientAZ>>, <<"h1", ClientQB>>, <<"h2", ClientAZ>>},
        e \in EventParams}

NextReaper ==
    \/ \E q \in ReaperQueries : Service(q)
    \/ ClearPeersStart
    \/ \E h \in InfoHashes : ClearPeersSwarm(h)
    \/ ClearPeersDone
    \/ Tick

SpecReaper ==
    /\ Init
    /\ [][NextReaper]_vars
    /\ WF_vars(ClearPeersStart)
    /\ WF_vars(\E h \in InfoHashes : ClearPeersSwarm(h))
    /\ WF_vars(ClearPeersDone)

\* The swarm of h holds an entry of client c that announced at time t.
Entry(h, c, t) ==
    \E p \in Seeders(records, h) \cup Leechers(records, h) :
        p.peer_id = c.peer_id /\ p.last_announced = t

\* C30: an entry of a swarm whose last_announced is peer_timeout or more in
\* the past does not stay: unless the peer announces again, which replaces
\* it, a pass of the janitor removes it from seeders and leechers.
C30_SilentPeerReaped ==
    \A h \in InfoHashes, c \in {ClientAZ, ClientQB}, t \in Times :
        (Entry(h, c, t) /\ now - t >= peer_timeout) ~> ~Entry(h, c, t)

\* A pass has removed the one leecher of h1, and no request came after the
\* clock moved.
C30_Witness ==
    /\ reap.pc = "scan"
    /\ reap.info_hashes = {}
    /\ reap.leeches_cleared = 1
    /\ now = 1
    /\ nann = 1
    /\ last.op = "announce"
    /\ last.event = "started"
    /\ last.peer.last_announced = 0
    /\ "h1" \in DOMAIN records
    /\ Leechers(records, "h1") = {}
    /\ Seeders(records, "h1") = {}

\* ------------------------------------------------- rows of the TorrentStore
\* C31: an announce with event=stopped changes no counter of the
\* TorrentStore: every row is afterwards what it was before.
C31_StoppedKeepsCounters ==
    [][(Announced("stopped") /\ last'.op = "announce") =>
           torrents' = torrents]_vars

\* A stopped announce took a peer that had started out of the swarm of h1,
\* and the row of h1 still counts it.
C31_Witness ==
    /\ last.op = "announce"
    /\ last.handled
    /\ last.event = "stopped"
    /\ last.after = "started"
    /\ last.info_hash = "h1"
    /\ torrents["h1"].incomplete >= 1
    /\ ~InSet(Leechers(records, "h1"), last.peer)
    /\ ~InSet(Seeders(records, "h1"), last.peer)

\* The started and stopped announces of one client on h1, which has a row,
\* and on h2, which has none; the empty scrape and the scrape of h2.
RowQueries ==
    {Query(h, PeerIdAZ, e, Numwant(1), "none", "absent", "v4") :
        h \in InfoHashes, e \in {"started", "stopped"}}

RowScrapes == {<<>>, << <<"info_hash", "h2">> >>}

\* Number of times the flush interval fires beside the other routes.
MaxRowFlushes == 1

RowsFlushTick ==
    /\ flush.spawned < MaxRowFlushes
    /\ FlushTick

\* Every route and task that reaches the TorrentStore: announces, scrapes,
\* the janitor's two intervals, and new_seed and new_leech called directly
\* for the info-hash without a row.
NextRows ==
    \/ \E q \in RowQueries : Service(q)
    \/ \E pairs \in RowScrapes : Scrape(pairs)
    \/ NewSeed("h2")
    \/ NewLeech("h2")
    \/ ClearPeersStart
    \/ \E h \in InfoHashes : ClearPeersSwarm(h)
    \/ ClearPeersDone
    \/ RowsFlushTick
    \/ FlushSnapshot
    \/ FlushDone
    \/ Tick

SpecRows == Init /\ [][NextRows]_vars

NextReapStats ==
    \/ \E q \in ReaperQueries : Service(q)
    \/ AddSeed
    \/ AddLeech
    \/ ClearPeersStart
    \/ \E h \in InfoHashes : ClearPeersSwarm(h)
    \/ ClearPeersDone
    \/ Tick

SpecReapStats == Init /\ [][NextReapStats]_vars

\* C33: a pass of the janitor that removed s seeders and l leechers ends with
\* total_seeders of GlobalStatistics lowered by s and total_leechers by l,
\* neither below 0.
C33_ReaperUpdatesStats ==
    [][(reap.pc = "scan" /\ reap'.pc = "idle") =>
           stats' = cleared_peers(stats, reap.seeds_cleared,
                                  reap.leeches_cleared)]_vars

\* ------------------------------------- the flusher and the TorrentStore lock
\* The flusher as it would be if the guard of torrents.read() were bound to
\* a variable of the task's block: it would live until flush_torrents has
\* returned.
Janitor_read_guard_bound(f) == f.running # <<>>

\* Whether the flusher holds the read guard of the TorrentStore at a point
\* where another task can run. The guard is a temporary of the statement
\* that collects the rows (janitor.rs:98-106) and is dropped at its end; the
\* statement's one await is the acquisition. Waiting tasks hold nothing, and
\* the task that runs flush_torrents has dropped the guard.
Janitor_read_guard(f) == FALSE

\* torrents.write().await of new_seed and new_leech is granted when no read
\* guard and no write guard is out; the two calls hold the write guard from
\* their first to their last line.
TorrentStore_try_write(f) == ~Janitor_read_guard(f)

LockedNewSeed(info_hash) ==
    /\ TorrentStore_try_write(flush)
    /\ NewSeed(info_hash)

LockedNewLeech(info_hash) ==
    /\ TorrentStore_try_write(flush)
    /\ NewLeech(info_hash)

\* The flusher beside handlers that wait for the write lock of the
\* TorrentStore.
NextFlushLock ==
    \/ FlushTick
    \/ FlushSnapshot
    \/ FlushDone
    \/ \E h \in InfoHashes : LockedNewSeed(h) \/ LockedNewLeech(h)

SpecFlushLock == Init /\ [][NextFlushLock]_vars

CountQueries == {q \in ReaperQueries : q.event \in {"started", "completed"}}

\* Started and completed announces only, one after the other, as time
\* passes: no stopped announce, no pass of the janitor.
NextCounts ==
    \/ \E q \in CountQueries : Service(q)
    \/ Tick

SpecCounts == Init /\ [][NextCounts]_vars

\* C35: between requests, the complete of a row is the number of seeders of
\* its swarm and its incomplete the number of leechers, when the row started
\* at 0 and 0 with no swarm and only started and completed announces came.
C35_CountersAreSetSizes ==
    \A h \in DOMAIN torrents :
        /\ torrents[h].complete = Cardinality(Seeders(records, h))
        /\ torrents[h].incomplete = Cardinality(Leechers(records, h))

\* ------------------------------------------------ the locks of the stores
\* let mut torrents = self.torrents.write().await, in new_seed and new_leech.
HandlerTorrentWrite(i) ==
    /\ handlers[i].pc = "torrent_store"
    /\ RwLock_try_write(tlock)
    /\ tlock' = [tlock EXCEPT !.writer = i]
    /\ SetHandler(i, [handlers[i] EXCEPT !.pc = "new_counts"])
    /\ UNCHANGED <<approval, scrape, flush, wire, lock, storeVars, procVars>>

\* The body of new_leech or new_seed, and the drop of the guard at its return.
HandlerNewCounts(i) ==
    LET me == handlers[i] IN
    /\ me.pc = "new_counts"
    /\ torrents' = IF me.event = "started"
                   THEN TorrentStore_new_leech(torrents, me.info_hash)
                   ELSE TorrentStore_new_seed(torrents, me.info_hash)
    /\ tlock' = [tlock EXCEPT !.writer = 0]
    /\ SetHandler(i, [me EXCEPT !.pc = "r_get_peers"])
    /\ UNCHANGED <<approval, scrape, flush, wire, lock, records, stats, now, last,
                   sample, fails, procVars>>

\* give_random on the vector collected, and let torrents =
\* self.torrents.read().await of get_announce_stats.
HandlerStatsRead(i) ==
    /\ handlers[i].pc = "respond"
    /\ RwLock_try_read(tlock)
    /\ tlock' = [tlock EXCEPT !.readers = @ \cup {i}]
    /\ SetHandler(i, [handlers[i] EXCEPT !.pc = "get_announce_stats"])
    /\ UNCHANGED <<approval, scrape, flush, wire, lock, storeVars, procVars>>

\* The body of get_announce_stats, the drop of its guard, and the reply. The
\* requests of these handlers carry numwant=0.
HandlerReply(i) ==
    LET me == handlers[i]
        list == {[from |-> "seeders", peer |-> p] : p \in me.seeds}
                \cup {[from |-> "leechers", peer |-> p] : p \in me.leeches}
        st == TorrentStore_get_announce_stats(torrents, me.info_hash)
    IN
    /\ me.pc = "get_announce_stats"
    /\ \E given \in PeerList_give_random(list, 0) :
          resp' = AnnounceResponse_new(st[1], st[2], SplitFamilies(given).peers,
                                       SplitFamilies(given).peers6)
    /\ tlock' = [tlock EXCEPT !.readers = @ \ {i}]
    /\ SetHandler(i, IdleHandler)
    /\ UNCHANGED <<approval, scrape, flush, wire, lock, storeVars, req, nann, reap>>

\* The flusher's statement that collects the rows: it waits for the read
\* lock, and the guard is dropped at the end of the statement.
LockedFlushSnapshot == RwLock_try_read(tlock) /\ FlushSnapshot

\* What handler i does next once its request is parsed.
HandlerStep(i) ==
    \/ HandlerWrite(i)
    \/ HandlerPutLeecher(i)
    \/ HandlerRemoveSeeder(i)
    \/ HandlerRemoveLeecher(i)
    \/ HandlerTake(i)
    \/ HandlerInsert(i)
    \/ HandlerUpdateSeeder(i)
    \/ HandlerUpdateLeecher(i)
    \/ HandlerTorrentWrite(i)
    \/ HandlerNewCounts(i)
    \/ HandlerRead(i)
    \/ HandlerCopyLeechers(i)
    \/ HandlerStatsRead(i)
    \/ HandlerReply(i)

\* Number of announce requests the two handlers accept beside the janitor.
MaxLockRequests == 2

\* An announce of client A for h1 reaches handler i.
LockReceive(i, event) ==
    /\ nann < MaxLockRequests
    /\ HandlerReceive(i, event, "h1", IdentA)

\* The requests that reach each handler: the started and stopped announces
\* go to the first, the completed and none announces to the second.
LockEvents(i) ==
    IF i = 1 THEN {"started", "stopped"} ELSE {"completed", "none"}

\* Two handlers serving the announces of one client for h1, the janitor's
\* pass and the flusher, each waiting for the locks it takes.
NextLocks ==
    \/ \E i \in HandlerIds : \E e \in LockEvents(i) : LockReceive(i, e)
    \/ \E i \in HandlerIds : HandlerStep(i)
    \/ LockedClearPeersStart
    \/ \E h \in InfoHashes : LockedClearPeersSwarm(h)
    \/ ClearPeersDone
    \/ RowsFlushTick
    \/ LockedFlushSnapshot
    \/ FlushDone

\* A task that can run does, and a lock that stays free is granted to a task
\* that waits for it: a handler whose next step stays possible takes it, and
\* so do the pass of the janitor and the flush task. tokio's RwLock queues
\* its waiters, which grants more than this.
SpecLocks ==
    /\ Init
    /\ [][NextLocks]_vars
    /\ \A i \in HandlerIds : WF_vars(HandlerStep(i))
    /\ WF_vars(\E h \in InfoHashes : LockedClearPeersSwarm(h))
    /\ WF_vars(ClearPeersDone)
    /\ WF_vars(LockedFlushSnapshot)
    /\ WF_vars(FlushDone)

\* The locks of which handler i holds a guard.
HeldBy(i) ==
    (IF lock.writer = i \/ i \in lock.readers THEN {"peer_store"} ELSE {})
    \cup (IF tlock.writer = i \/ i \in tlock.readers
          THEN {"torrent_store"} ELSE {})

\* Handler i is granted a guard in this step.
Acquires(i) ==
    \/ lock'.writer = i /\ lock.writer # i
    \/ i \in lock'.readers \ lock.readers
    \/ tlock'.writer = i /\ tlock.writer # i
    \/ i \in tlock'.readers \ tlock.readers

\* No announce is being handled, no pass of the janitor is under way, and no
\* flush task waits or runs.
Quiescent ==
    /\ \A i \in HandlerIds : handlers[i].pc = "idle"
    /\ reap.pc = "idle"
    /\ flush.waiting = 0
    /\ flush.running = <<>>

\* C36: a handler holds the guard of at most one store at a time and is
\* granted a guard only while it holds none; a step of the janitor's pass
\* touches the PeerStore only and a step of the flusher reads the
\* TorrentStore only, their guards taken and dropped within the step; no
\* task takes the lock of GlobalStatistics. Whatever has been started, a
\* moment comes at which nothing is under way: every announce being handled
\* is answered, every pass of the janitor ends, and every flush task ends.
C36_OneLockAtATime ==
    /\ [](\A i \in HandlerIds : Cardinality(HeldBy(i)) <= 1)
    /\ [][ /\ \A i \in HandlerIds : Acquires(i) => HeldBy(i) = {}
           /\ reap' # reap => UNCHANGED <<torrents, stats, lock, tlock>>
           /\ flush' # flush => UNCHANGED <<records, torrents, stats, lock, tlock>>
           /\ stats' = stats ]_vars
    /\ []<>Quiescent

\* One handler holds the write guard of the TorrentStore and the other that
\* of the PeerStore, while a flush task waits for the read lock of the
\* TorrentStore and a pass of the janitor for the write lock of the
\* PeerStore.
C36_Witness ==
    /\ tlock.writer = 1
    /\ lock.writer = 2
    /\ flush.waiting = 1
    /\ reap.pc = "scan"
    /\ reap.info_hashes # {}

\* --------------------------------------------- the counters of GlobalStatistics
\* A call of the method named op has been made in this step.
StatsCalled(op) ==
    /\ last'.op = op
    /\ <<last, stats>>' # <<last, stats>>

\* C37: sub_seed takes one from total_seeders unless it is 0 and leaves the
\* other counters as they were; sub_leech does the same to total_leechers.
C37_SubChangesOwnCounter ==
    [][ /\ StatsCalled("sub_seed") =>
              stats' = [stats EXCEPT !.total_seeders = saturating_sub(@, 1)]
        /\ StatsCalled("sub_leech") =>
              stats' = [stats EXCEPT !.total_leechers = saturating_sub(@, 1)]
      ]_vars

\* ------------------------------------------------ the client filter's outcomes
\* C38: with ClientApproval in place, every request, whatever its peer_id,
\* is either rejected with the failure "Unapproved client" or passed on to
\* the announce route; the filter never aborts it.
C38_ClientFilterNeverAborts ==
    [][(Served /\ approval.client.enabled) =>
         LET outcome == ClientApproval_call(approval.client, last'.query) IN
         /\ outcome \in {"reject", "pass"}
         /\ outcome = "reject" =>
                resp' = AnnounceResponse_failure("Unapproved client")]_vars

\* C39: succ_announces is never above announce_requests, so that the
\* difference num_fails returns is never below 0, after any sequence of
\* succ_announce and fail_announce (and of the other calls).
C39_SuccAtMostRequests ==
    /\ stats.succ_announces <= stats.announce_requests
    /\ num_fails(stats) >= 0
    /\ last.op = "num_fails" => fails = num_fails(stats)

\* num_fails has just returned 1, after at least one success and one failure.
C39_Witness ==
    /\ last.op = "num_fails"
    /\ stats.succ_announces >= 1
    /\ stats.announce_requests = stats.succ_announces + 1
    /\ fails = 1

\* ------------------------------------------------- the swarms of the PeerStore
\* C40: the info-hashes that have a swarm only become more: a swarm appears
\* only in the put_leecher of a started announce (put_seeder, the other
\* method that makes one, is not called by the handler), and no stopped,
\* completed or none announce and no pass of the janitor takes a swarm away,
\* whether or not its two sets have become empty.
C40_SwarmsOnlyGrow ==
    [][ /\ DOMAIN records \subseteq DOMAIN records'
        /\ DOMAIN records' # DOMAIN records =>
              /\ req.pc = "peer_store"
              /\ req.event = "started"
              /\ DOMAIN records' = DOMAIN records \cup {req.info_hash} ]_vars

\* The swarm of h1 is still there after a stopped announce took its last
\* peer out.
C40_Witness ==
    /\ req.pc = "get_peers"
    /\ req.event = "stopped"
    /\ req.info_hash = "h1"
    /\ "h1" \in DOMAIN records
    /\ records["h1"].seeders = {}
    /\ records["h1"].leechers = {}
    /\ nann = 2
====
